---- MODULE Spec2Model ----
(***************************************************************************)
(* Verification model of the DocC2Context conversion service:              *)
(*   - app/services/file_validation.py     (archive validation)            *)
(*   - app/services/conversion_pipeline.py (secure extraction, pipeline)   *)
(*   - app/services/subprocess_manager.py  (command validation, retries)   *)
(*   - app/services/workspace_manager.py   (workspace lifecycle)           *)
(*   - app/api/v1/endpoints.py             (convert_file request handler)  *)
(*                                                                         *)
(* Strings are sequences of characters; a character is a one-letter TLA+   *)
(* string, except NUL which stands for the byte \x00.                      *)
(*                                                                         *)
(* Six specifications share the module:                                    *)
(*   SpecValidate : validate_zip_bomb_protection run entry by entry        *)
(*   SpecExec     : execute_command (validation, attempts, retries)        *)
(*   SpecExtract  : extract_archive run entry by entry on a file system    *)
(*   Spec         : concurrent convert_file requests and their workspaces  *)
(*   SpecPipeline : one run_complete_pipeline run and its HTTP response     *)
(*   SpecSanitize : sanitize_filename applied to a declared filename        *)
(***************************************************************************)
EXTENDS Integers, Sequences, FiniteSets, TLC

VARIABLES
    \* ---- validate_zip_bomb_protection (SpecValidate) ----
    v_zip,              \* zip_file.infolist(): sequence of entries
    v_original_size,    \* original_size argument (size units)
    v_pc,               \* "idle" | "loop" | "done"
    v_i,                \* number of entries the for loop has consumed
    file_count,         \* local file_count
    total_uncompressed_size, \* local total_uncompressed_size
    v_verdict,          \* "pending" | "accepted" | rejection reason
    \* ---- SubprocessManager.execute_command (SpecExec) ----
    c_command,          \* command: list of arguments
    c_env,              \* env argument: None or a dict
    c_child_env,        \* environments handed to the children spawned
    c_retries,          \* retries (settings.max_subprocess_retries)
    c_pc,               \* position inside execute_command
    c_attempt,          \* loop variable attempt
    c_spawned,          \* child processes created so far by this call
    c_alive,            \* children created and not yet reaped
    c_last_exception,   \* last_exception: "none" | "timeout" | "error"
    c_result,           \* returned SubprocessResult.returncode, or "none"
    c_returncode,       \* process.returncode of the current child: <<>> = None
    c_log,              \* failures logged, one per failed attempt, in order
    c_sleeps,           \* asyncio.sleep(1) calls made
    \* ---- ConversionPipeline.extract_archive (SpecExtract) ----
    x_zip,              \* zip_ref.infolist(): sequence of entries
    x_pc,               \* "idle" | "loop" | "returned" | "raised"
    x_i,                \* number of entries the for loop has consumed
    nested_zip_count,   \* local nested_zip_count
    extracted_files,    \* local extracted_files: list of (lexical) paths
    x_error,            \* what was raised: "none" or the kind of error
    x_real,             \* size of the data each entry really decompresses to
    x_written,          \* bytes written by target.write(chunk) so far
    x_log_level,        \* settings.log_level the process was started with
    fs_mode,            \* permission bits of each regular file on disk
    fs_files,           \* regular files on disk: set of absolute paths
    fs_dirs,            \* directories on disk: set of absolute paths
    \* ---- convert_file requests and their workspaces (Spec) ----
    ws_dirs,            \* workspace directories that exist under base_path
    ws_files,           \* what each workspace directory holds
    r_pc,               \* position of each request inside convert_file
    workspace_name,     \* create_workspace local workspace_name, per request
    workspace_path,     \* create_workspace local workspace_path (None = 0)
    r_upload,           \* <<upload>> once file.read() returned, else <<>>
    r_exc,              \* exception travelling out of the request, or "none"
    r_status,           \* HTTP outcome of the request
    r_log,              \* workspace log records written for the request
    cleaned,            \* arguments of the _cleanup_workspace calls made
    \* ---- run_complete_pipeline and the response (SpecPipeline) ----
    p_pc,               \* position inside run_complete_pipeline / convert_file
    p_zip,              \* entries of the uploaded archive
    p_files,            \* files of the workspace, each with where it came from
    p_input,            \* docc_input_path: <<>> = none chosen yet, else <<dir>>
    p_tool,             \* what the tool did on its last run, <<>> before it ends
    p_mock,             \* the mock conversion replaced the tool's result
    p_exc,              \* exception travelling out of the pipeline: <<>> = none
    p_archive,          \* members of output.zip: <<>> = not written
    p_response,         \* HTTP response of convert_file: <<>> = not sent yet
    \* ---- sanitize_filename on a declared filename (SpecSanitize) ----
    s_pc,               \* "idle" | "start" | "sanitized" | "again" | "path"
    s_filename,         \* the filename the client declared
    s_result,           \* what sanitize_filename(filename) gave: <<>> = not run
    s_again,            \* what sanitize_filename gave for its own result
    s_path,             \* <<name>> once a workspace path was built from it
    \* ---- the configured limits and the limits applied (SpecLimits) ----
    settings,           \* Settings(): max_zip_files and max_zip_depth
    l_pc,               \* "idle" | "start" | "validated" | "rejected" | "extracted"
    l_zip,              \* entries of the archive put through both checks
    l_validation,       \* what validate_zip_bomb_protection gave: <<>> = not run
    l_extraction,       \* what extract_archive gave: <<>> = not run
    \* ---- the same upload converted twice (SpecRepeat) ----
    i_pc,               \* position inside the run in progress
    i_input,            \* the upload and the converter, the same for both runs
    i_workspace,        \* name drawn for the workspace of the run: <<>> = none
    i_names,            \* workspace names the runs have used, in order
    i_files,            \* files of the workspace: absolute path and content
    i_outputs           \* what each finished run returned, in order

valVars == <<v_zip, v_original_size, v_pc, v_i, file_count,
             total_uncompressed_size, v_verdict>>

cmdVars == <<c_command, c_env, c_child_env, c_retries, c_pc, c_attempt, c_spawned, c_alive,
             c_last_exception, c_result, c_returncode, c_log, c_sleeps>>

extVars == <<x_zip, x_pc, x_i, nested_zip_count, extracted_files, x_error,
             x_real, x_written, x_log_level, fs_mode, fs_files, fs_dirs>>

reqVars == <<ws_dirs, ws_files, r_pc, workspace_name, workspace_path, r_upload,
             r_exc, r_status, r_log, cleaned>>

pipVars == <<p_pc, p_zip, p_files, p_input, p_tool, p_mock, p_exc, p_archive,
             p_response>>

sanVars == <<s_pc, s_filename, s_result, s_again, s_path>>

limVars == <<settings, l_pc, l_zip, l_validation, l_extraction>>

repVars == <<i_pc, i_input, i_workspace, i_names, i_files, i_outputs>>

vars == <<valVars, cmdVars, extVars, reqVars, pipVars, sanVars, limVars, repVars>>

\* what each component leaves alone
notValidate == <<cmdVars, extVars, reqVars, pipVars, sanVars, limVars, repVars>>
notExec == <<valVars, extVars, reqVars, pipVars, sanVars, limVars, repVars>>
notExtract == <<valVars, cmdVars, reqVars, pipVars, sanVars, limVars, repVars>>
notRequests == <<valVars, cmdVars, extVars, pipVars, sanVars, limVars, repVars>>
notPipeline == <<valVars, extVars, reqVars, sanVars, limVars, repVars>>
notSanitize == <<valVars, cmdVars, extVars, reqVars, pipVars, limVars, repVars>>
notLimits == <<valVars, cmdVars, extVars, reqVars, pipVars, sanVars, repVars>>
notRepeat == <<valVars, cmdVars, extVars, reqVars, pipVars, sanVars, limVars>>

----------------------------------------------------------------------------
(* Bounds of the model *)

\* longest entry name enumerated character by character
MaxNameLen == 4

\* largest retry budget given to execute_command
MaxRetries == 2

\* longest entry path enumerated character by character for extraction
MaxPathLen == 5

\* most entries of an archive built from the extraction entry pool
MaxPoolEntries == 2

\* concurrent convert_file requests
NumRequests == 2

\* distinct values uuid.uuid4() can take (a collision is possible)
NumNames == 2

\* longest declared filename enumerated character by character
MaxFilenameLen == 5

----------------------------------------------------------------------------
(* Generic string helpers (Python str methods used by the code) *)

NUL == "NUL"

SeqsUpTo(S, n) == UNION {[1..k -> S] : k \in 0..n}

\* c in s
Contains(s, c) == \E i \in 1..Len(s) : s[i] = c

\* any(c in s for c in cs)
ContainsAny(s, cs) == \E i \in 1..Len(s) : s[i] \in cs

\* s.startswith(c) for a one-character c
startswith(s, c) == Len(s) > 0 /\ s[1] = c

\* s.endswith(c) for a one-character c
endswith(s, c) == Len(s) > 0 /\ s[Len(s)] = c

\* ".." in s
ContainsDotDot(s) == \E i \in 1..(Len(s) - 1) : s[i] = "." /\ s[i + 1] = "."

\* s.lstrip(cs): drop the longest prefix made of characters of cs
RECURSIVE lstrip(_, _)
lstrip(s, cs) ==
    IF Len(s) > 0 /\ s[1] \in cs THEN lstrip(Tail(s), cs) ELSE s

\* s.split(sep): the segments between occurrences of sep (never empty list)
RECURSIVE SplitAcc(_, _, _)
SplitAcc(s, sep, cur) ==
    IF Len(s) = 0 THEN <<cur>>
    ELSE IF s[1] = sep THEN <<cur>> \o SplitAcc(Tail(s), sep, <<>>)
    ELSE SplitAcc(Tail(s), sep, Append(cur, s[1]))

split(s, sep) == SplitAcc(s, sep, <<>>)

----------------------------------------------------------------------------
(* file_validation.py: validate_zip_bomb_protection *)

\* Size units: the model scales byte counts down.  One unit stands for a
\* block of bytes; the ratio limit 5 is the program's, the hard ceiling
\* (settings.max_decompressed_size_mb * 1024 * 1024, 500 MB) is scaled to 6
\* units so that both arms of the min() are reached with uploads of 1 and 2
\* units, and max_files (5000 in the program) is scaled to 2 entries.
RatioLimit == 5
max_decompressed_ceiling == 6
max_files == 2

\* Unix file-type constants (stat.h), as held in external_attr >> 16
S_IFLNK == 40960     \* 0xA000

\* An entry of infolist().  external_attr is a 32-bit value; the model keeps
\* its upper half (external_attr >> 16) in external_attr_hi, the only part
\* the code reads.
Entry(fn, sz, fl, hi) ==
    [filename |-> fn, file_size |-> sz, flag_bits |-> fl, external_attr_hi |-> hi]

\* mutant: the ratio limit alone, without the hard ceiling
max_decompressed_size_no_ceiling(original_size) == original_size * RatioLimit

\* min(original_size * 5, settings.max_decompressed_size_mb * 1024 * 1024)
max_decompressed_size(original_size) ==
    IF original_size * RatioLimit < max_decompressed_ceiling
    THEN original_size * RatioLimit
    ELSE max_decompressed_ceiling

\* file_info.filename.startswith("/") or file_info.filename.startswith("\\")
IsAbsoluteName(filename) == startswith(filename, "/") \/ startswith(filename, "\\")

\* ".." in file_info.filename
HasTraversalName(filename) == ContainsDotDot(filename)

\* file_info.flag_bits & 0x1
IsEncrypted(flag_bits) == flag_bits % 2 = 1

\* (file_info.external_attr >> 16) == 0xA000
IsSymlinkAttr(external_attr_hi) == external_attr_hi = S_IFLNK

\* mutant: the count limit compared one entry too late
EntryVerdict_count_late(file_info, count, total, original_size) ==
    IF count > max_files + 1 THEN "too_many_files"
    ELSE IF IsAbsoluteName(file_info.filename) THEN "absolute_path"
    ELSE IF HasTraversalName(file_info.filename) THEN "path_traversal"
    ELSE IF Contains(file_info.filename, NUL) THEN "null_byte"
    ELSE IF total + file_info.file_size > max_decompressed_size(original_size)
         THEN "size_exceeded"
    ELSE IF IsEncrypted(file_info.flag_bits) THEN "encrypted"
    ELSE IF IsSymlinkAttr(file_info.external_attr_hi) THEN "symlink"
    ELSE "ok"

\* One iteration of the for loop, after file_count += 1: the rejection reason
\* raised for file_info, or "ok" when the loop goes on.  count is the
\* incremented file_count, total the total_uncompressed_size before this entry.
EntryVerdict(file_info, count, total, original_size) ==
    IF count > max_files THEN "too_many_files"
    ELSE IF IsAbsoluteName(file_info.filename) THEN "absolute_path"
    ELSE IF HasTraversalName(file_info.filename) THEN "path_traversal"
    ELSE IF Contains(file_info.filename, NUL) THEN "null_byte"
    ELSE IF total + file_info.file_size > max_decompressed_size(original_size)
         THEN "size_exceeded"
    ELSE IF IsEncrypted(file_info.flag_bits) THEN "encrypted"
    ELSE IF IsSymlinkAttr(file_info.external_attr_hi) THEN "symlink"
    ELSE "ok"

\* The whole function: "accepted" or the reason of the first raise.
RECURSIVE ValidateFrom(_, _, _, _)
ValidateFrom(zip, i, total, original_size) ==
    IF i > Len(zip) THEN "accepted"
    ELSE LET r == EntryVerdict(zip[i], i, total, original_size)
         IN IF r # "ok" THEN r
            ELSE ValidateFrom(zip, i + 1, total + zip[i].file_size, original_size)

validate_zip_bomb_protection(zip, original_size) ==
    ValidateFrom(zip, 1, 0, original_size)

----------------------------------------------------------------------------
(* Inputs of SpecValidate *)

NameChars == {"/", "\\", ".", "a", ":", NUL}

\* every entry name of up to MaxNameLen characters (zip entry names are
\* not empty)
AllNames == SeqsUpTo(NameChars, MaxNameLen) \ {<<>>}

\* external_attr >> 16 values: none stored, regular file 0100644, symlink
\* type with no permission bits (0xA000), symlink 0120777 (0xA1FF)
AttrValues == {0, 33188, 40960, 41471}

\* one-entry archives: every name, every flag, every attribute
NameArchives ==
    {<<Entry(fn, 1, fl, hi)>> : fn \in AllNames, fl \in {0, 1}, hi \in AttrValues}

\* entries combined into longer archives
PoolEntries ==
    {Entry(fn, sz, fl, hi) :
        fn \in {<<"a">>, <<".", ".", "/", "a">>},
        sz \in {0, 3, 4},
        fl \in {0, 1},
        hi \in {33188, 40960}}

PoolArchives == SeqsUpTo(PoolEntries, max_files + 1)

UploadSizes == {1, 2}

----------------------------------------------------------------------------
(* subprocess_manager.py: the environment of the child process *)

\* A value of an environment variable: its length and whether it contains a
\* NUL byte (what _sanitize_environment reads of it).
EnvValue(len, nul) == [len |-> len, nul |-> nul]

\* len(value) > 4096
MaxEnvValueLength == 4096

\* safe_keys
safe_keys == {"PATH", "HOME", "USER", "LANG", "LC_ALL", "TZ", "TMPDIR", "TEMP", "TMP"}

\* the dict {}
EmptyEnv == [k \in {} |-> EnvValue(0, FALSE)]

\* env=None
NoEnv == [given |-> FALSE, vars |-> EmptyEnv]

\* env=d for a dict d (a function from names to values)
SomeEnv(d) == [given |-> TRUE, vars |-> d]

\* _sanitize_environment(env); a whitelisted key holds no NUL byte
sanitize_environment(env) ==
    LET kept == {k \in DOMAIN env :
                    /\ k \in safe_keys
                    /\ ~ env[k].nul
                    /\ env[k].len <= MaxEnvValueLength}
    IN [k \in kept |-> env[k]]

\* safe_env = None; if env: safe_env = self._sanitize_environment(env)
\* (None and the empty dict are both false)
safe_env(env) ==
    IF env.given /\ DOMAIN env.vars # {}
    THEN SomeEnv(sanitize_environment(env.vars))
    ELSE NoEnv

\* The environment of the service process itself: variables a child may be
\* given (PATH) and variables of the service only (its settings are read
\* from environment variables, e.g. SWIFT_CLI_PATH; anything the deployment
\* sets, e.g. LD_PRELOAD).
os_environ ==
    [k \in {"PATH", "SWIFT_CLI_PATH", "LD_PRELOAD"} |-> EnvValue(8, FALSE)]

\* asyncio.create_subprocess_exec(..., env=safe_env): with env=None the child
\* inherits the environment of the calling process
ChildEnvironment(env) ==
    IF safe_env(env).given THEN safe_env(env).vars ELSE os_environ

----------------------------------------------------------------------------
(* SpecValidate: the loop of validate_zip_bomb_protection *)

\* no validation in progress
IdleValidate ==
    /\ v_zip = <<>>
    /\ v_original_size = 0
    /\ v_pc = "idle"
    /\ v_i = 0
    /\ file_count = 0
    /\ total_uncompressed_size = 0
    /\ v_verdict = "pending"

\* no execute_command call in progress
IdleExec ==
    /\ c_command = <<>>
    /\ c_env = NoEnv
    /\ c_child_env = {}
    /\ c_retries = 0
    /\ c_pc = "idle"
    /\ c_attempt = 0
    /\ c_spawned = 0
    /\ c_alive = 0
    /\ c_last_exception = "none"
    /\ c_result = "none"
    /\ c_returncode = <<>>
    /\ c_log = <<>>
    /\ c_sleeps = 0

\* log_level: str = "INFO" (config.py)
log_level == "INFO"

\* the values of settings.log_level of the model
LogLevels == {"INFO", "ERROR"}

\* logger.isEnabledFor(logging.WARNING) under setup_logging(level)
WarningEnabled(level) == level \in {"DEBUG", "INFO", "WARNING"}

\* no extraction in progress, nothing on disk
IdleExtract ==
    /\ x_zip = <<>>
    /\ x_pc = "idle"
    /\ x_i = 0
    /\ nested_zip_count = 0
    /\ extracted_files = <<>>
    /\ x_error = "none"
    /\ x_real = <<>>
    /\ x_written = 0
    /\ x_log_level = log_level
    /\ fs_mode = <<>>
    /\ fs_files = {}
    /\ fs_dirs = {}

\* no request received, no workspace on disk
IdleRequests ==
    /\ ws_dirs = {}
    /\ ws_files = <<>>
    /\ r_pc = <<>>
    /\ workspace_name = <<>>
    /\ workspace_path = <<>>
    /\ r_upload = <<>>
    /\ r_exc = <<>>
    /\ r_status = <<>>
    /\ r_log = <<>>
    /\ cleaned = <<>>

\* no filename being sanitized
IdleSanitize ==
    /\ s_pc = "idle"
    /\ s_filename = <<>>
    /\ s_result = <<>>
    /\ s_again = <<>>
    /\ s_path = <<>>

\* config.py, class Settings: max_zip_files: int = 5000, at the scale of
\* max_files
max_zip_files == 2

\* config.py, class Settings: max_zip_depth: int = 10
max_zip_depth == 10

\* the limits are the defaults and no archive is being put through them
IdleLimits ==
    /\ settings = [max_zip_files |-> max_zip_files, max_zip_depth |-> max_zip_depth]
    /\ l_pc = "idle"
    /\ l_zip = <<>>
    /\ l_validation = <<>>
    /\ l_extraction = <<>>

\* no repeated conversion in progress
IdleRepeat ==
    /\ i_pc = "idle"
    /\ i_input = <<>>
    /\ i_workspace = <<>>
    /\ i_names = <<>>
    /\ i_files = {}
    /\ i_outputs = <<>>

\* no pipeline run in progress
IdlePipeline ==
    /\ p_pc = "idle"
    /\ p_zip = <<>>
    /\ p_files = {}
    /\ p_input = <<>>
    /\ p_tool = <<>>
    /\ p_mock = FALSE
    /\ p_exc = <<>>
    /\ p_archive = <<>>
    /\ p_response = <<>>

InitValidate ==
    /\ v_zip \in NameArchives \cup PoolArchives
    /\ v_original_size \in UploadSizes
    /\ v_pc = "loop"
    /\ v_i = 0
    /\ file_count = 0
    /\ total_uncompressed_size = 0
    /\ v_verdict = "pending"
    /\ IdleExec
    /\ IdleExtract
    /\ IdleRequests
    /\ IdlePipeline
    /\ IdleSanitize
    /\ IdleLimits
    /\ IdleRepeat

\* one iteration of `for file_info in zip_file.infolist()`
ValidateEntry ==
    /\ v_pc = "loop"
    /\ v_i < Len(v_zip)
    /\ LET file_info == v_zip[v_i + 1]
           r == EntryVerdict(file_info, file_count + 1,
                             total_uncompressed_size, v_original_size)
           \* total_uncompressed_size += file_size runs once the three
           \* name checks have passed
           added == r \in {"size_exceeded", "encrypted", "symlink", "ok"}
       IN /\ v_i' = v_i + 1
          /\ file_count' = file_count + 1
          /\ total_uncompressed_size' =
                IF added THEN total_uncompressed_size + file_info.file_size
                ELSE total_uncompressed_size
          /\ IF r = "ok"
             THEN UNCHANGED <<v_pc, v_verdict>>
             ELSE v_pc' = "done" /\ v_verdict' = r
    /\ UNCHANGED <<v_zip, v_original_size>>
    /\ UNCHANGED notValidate

\* the loop ends without a raise: "ZIP bomb protection validation passed"
ValidatePassed ==
    /\ v_pc = "loop"
    /\ v_i = Len(v_zip)
    /\ v_pc' = "done"
    /\ v_verdict' = "accepted"
    /\ UNCHANGED <<v_zip, v_original_size, v_i, file_count, total_uncompressed_size>>
    /\ UNCHANGED notValidate

NextValidate == ValidateEntry \/ ValidatePassed

SpecValidate == InitValidate /\ [][NextValidate]_vars

----------------------------------------------------------------------------
(* subprocess_manager.py: validate_command_safety *)

\* An argument is a string; the model keeps what the code reads of it: its
\* text up to identity (text), its length (len) and which of the characters
\* the checks look for occur in it (chars).  Two arguments are the same
\* string iff the records are equal.
Arg(text, len, chars) == [text |-> text, len |-> len, chars |-> chars]

\* settings.swift_cli_path
swift_cli_path == Arg("docc2context", 12, {})

\* len(arg) > 4096
MaxArgLength == 4096

\* dangerous_chars; BQ, LF and CR stand for the backquote, "\n" and "\r"
dangerous_chars == {";", "&", "|", "BQ", "$", "(", ")", "<", ">", "LF", "CR"}

InfoFlags == {Arg("--version", 9, {}), Arg("--help", 6, {})}

\* mutant: the path arguments are not scanned for dangerous characters
validate_command_safety_no_scan(command) ==
    IF Len(command) = 0 THEN FALSE
    ELSE IF \E i \in 1..Len(command) : NUL \in command[i].chars THEN FALSE
    ELSE IF \E i \in 1..Len(command) : command[i].len > MaxArgLength THEN FALSE
    ELSE IF command[1] # swift_cli_path THEN FALSE
    ELSE IF Len(command) = 3 THEN TRUE
    ELSE IF Len(command) = 2 /\ command[2] \in InfoFlags THEN TRUE
    ELSE FALSE

validate_command_safety(command) ==
    IF Len(command) = 0 THEN FALSE
    \* the for loop returns at the first argument with a NUL or too long
    ELSE IF \E i \in 1..Len(command) :
                NUL \in command[i].chars \/ command[i].len > MaxArgLength
         THEN FALSE
    ELSE IF command[1] # swift_cli_path THEN FALSE
    ELSE IF Len(command) = 3
         THEN ~ \E i \in {2, 3} : command[i].chars \cap dangerous_chars # {}
    ELSE IF Len(command) = 2 /\ command[2] \in InfoFlags THEN TRUE
    ELSE FALSE

----------------------------------------------------------------------------
(* Inputs of SpecExec *)

\* characters an argument may contain that some check looks for, and "*",
\* which no check looks for
SpecialChars == dangerous_chars \cup {NUL, "*"}

\* path-like arguments: clean or with one special character, of ordinary
\* length, of the longest accepted length and one character longer
PathArgs ==
    {Arg("in", l, cs) : l \in {6, MaxArgLength, MaxArgLength + 1},
                         cs \in {{}} \cup {{c} : c \in SpecialChars}}

OutArgs == {Arg("out", 7, {}), Arg("out", 7, {";"}), Arg("out", 7, {NUL})}

\* command[0] candidates: the configured binary, other binaries, and the
\* configured name with something appended
Binaries ==
    {swift_cli_path, Arg("bash", 4, {}), Arg("/bin/docc2context", 17, {}),
     Arg("docc2context;", 13, {";"})}

FlagArgs ==
    InfoFlags \cup {Arg("-h", 2, {}), Arg("--output", 8, {}), Arg("--force", 7, {})}

Commands ==
    {<<b, x, y>> : b \in Binaries, x \in PathArgs \cup FlagArgs, y \in OutArgs}
    \cup {<<b, x>> : b \in Binaries, x \in PathArgs \cup FlagArgs}
    \cup {<<>>, <<swift_cli_path>>,
          <<swift_cli_path, Arg("in", 6, {}), Arg("--output", 8, {}), Arg("out", 7, {})>>,
          <<swift_cli_path, Arg("in", 6, {}), Arg("--output", 8, {}), Arg("out", 7, {}),
            Arg("--force", 7, {})>>}

\* env arguments: None, and every dict over an allow-listed name and a name
\* that is not, with a value of the longest accepted length, one character
\* longer, or holding a NUL byte
EnvNames == {"PATH", "LD_PRELOAD"}

EnvValues ==
    {EnvValue(MaxEnvValueLength, FALSE), EnvValue(MaxEnvValueLength + 1, FALSE),
     EnvValue(8, TRUE)}

EnvArgs ==
    {NoEnv} \cup {SomeEnv(d) : d \in UNION {[K -> EnvValues] : K \in SUBSET EnvNames}}

----------------------------------------------------------------------------
(* SpecExec: SubprocessManager.execute_command *)

InitExec ==
    /\ c_command \in Commands
    /\ c_env \in EnvArgs
    /\ c_child_env = {}
    /\ c_retries \in 0..MaxRetries
    /\ c_pc = "start"
    /\ c_attempt = 0
    /\ c_spawned = 0
    /\ c_alive = 0
    /\ c_last_exception = "none"
    /\ c_result = "none"
    /\ c_returncode = <<>>
    /\ c_log = <<>>
    /\ c_sleeps = 0
    /\ IdleValidate
    /\ IdleExtract
    /\ IdleRequests
    /\ IdlePipeline
    /\ IdleSanitize
    /\ IdleLimits
    /\ IdleRepeat

\* "Validate command safety before execution": raise, or go on to the loop
ExecValidate ==
    /\ c_pc = "start"
    /\ c_pc' = IF validate_command_safety(c_command)
               THEN "spawn"
               ELSE "raised_unsafe"
    /\ UNCHANGED <<c_command, c_env, c_retries, c_attempt, c_spawned, c_alive,
                   c_last_exception, c_result, c_sleeps>>
    /\ UNCHANGED <<c_child_env, c_returncode>>
    /\ UNCHANGED c_log
    /\ UNCHANGED notExec

\* exit codes of the child: success and a failure
ExitCodes == {0, 1}

\* mutant: one more attempt than the budget
AfterFailure_one_more == IF c_attempt <= c_retries THEN "sleep" ELSE "exhausted"

\* where a failed attempt goes: `if attempt < retries: sleep, continue`,
\* else out of the loop (the last iteration falls through)
AfterFailure == IF c_attempt < c_retries THEN "sleep" ELSE "exhausted"

\* asyncio.create_subprocess_exec succeeds
ExecSpawn ==
    /\ c_pc = "spawn"
    /\ c_spawned' = c_spawned + 1
    /\ c_alive' = c_alive + 1
    /\ c_child_env' = c_child_env \cup {ChildEnvironment(c_env)}
    /\ c_returncode' = <<>>
    /\ c_pc' = "wait"
    /\ UNCHANGED <<c_command, c_env, c_retries, c_attempt, c_last_exception, c_result, c_sleeps>>
    /\ UNCHANGED c_log
    /\ UNCHANGED notExec

\* asyncio.create_subprocess_exec raises (binary missing, fork failure):
\* `except Exception`
ExecSpawnError ==
    /\ c_pc = "spawn"
    /\ c_last_exception' = "error"
    /\ c_log' = Append(c_log, "error")
    /\ c_pc' = AfterFailure
    /\ UNCHANGED <<c_command, c_env, c_retries, c_attempt, c_spawned, c_alive, c_result, c_sleeps>>
    /\ UNCHANGED <<c_child_env, c_returncode>>
    /\ UNCHANGED notExec

\* communicate() returns within the timeout and the output decodes: the
\* child has exited and is reaped; `return result` whatever the return code
ExecComplete ==
    /\ c_pc = "wait"
    /\ \E returncode \in ExitCodes :
        /\ c_returncode' = <<returncode>>
        /\ c_result' = returncode
    /\ c_alive' = c_alive - 1
    /\ c_pc' = "returned"
    /\ UNCHANGED <<c_command, c_env, c_retries, c_attempt, c_spawned, c_last_exception, c_sleeps>>
    /\ UNCHANGED c_child_env
    /\ UNCHANGED c_log
    /\ UNCHANGED notExec

\* communicate() returns but stdout/stderr is not valid UTF-8: decode raises,
\* `except Exception` (the child has exited and is reaped)
ExecDecodeError ==
    /\ c_pc = "wait"
    /\ c_alive' = c_alive - 1
    /\ \E returncode \in ExitCodes : c_returncode' = <<returncode>>
    /\ c_last_exception' = "error"
    /\ c_log' = Append(c_log, "error")
    /\ c_pc' = AfterFailure
    /\ UNCHANGED <<c_command, c_env, c_retries, c_attempt, c_spawned, c_result, c_sleeps>>
    /\ UNCHANGED c_child_env
    /\ UNCHANGED notExec

\* asyncio.wait_for expires: `except asyncio.TimeoutError`
ExecTimeout ==
    /\ c_pc = "wait"
    /\ c_last_exception' = "timeout"
    /\ c_log' = Append(c_log, "timeout")
    /\ c_pc' = "kill"
    /\ UNCHANGED <<c_command, c_env, c_retries, c_attempt, c_spawned, c_alive, c_result, c_sleeps>>
    /\ UNCHANGED <<c_child_env, c_returncode>>
    /\ UNCHANGED notExec

\* mutant: the timed-out child is left running
AfterKill_left_running(alive) == alive

\* the children alive after `process.kill(); await process.wait()` (when the
\* child has just exited by itself kill() raises ProcessLookupError, which
\* is passed over: it is not alive either)
AfterKill(alive) == alive - 1

\* process.kill(); await process.wait()
ExecKill ==
    /\ c_pc = "kill"
    /\ c_alive' = AfterKill(c_alive)
    /\ c_returncode' = <<-9>>
    /\ c_pc' = AfterFailure
    /\ UNCHANGED <<c_command, c_env, c_retries, c_attempt, c_spawned, c_last_exception,
                   c_result, c_sleeps>>
    /\ UNCHANGED c_child_env
    /\ UNCHANGED c_log
    /\ UNCHANGED notExec

\* await asyncio.sleep(1); continue
ExecSleep ==
    /\ c_pc = "sleep"
    /\ c_sleeps' = c_sleeps + 1
    /\ c_attempt' = c_attempt + 1
    /\ c_pc' = "spawn"
    /\ UNCHANGED <<c_command, c_env, c_retries, c_spawned, c_alive, c_last_exception, c_result>>
    /\ UNCHANGED <<c_child_env, c_returncode>>
    /\ UNCHANGED c_log
    /\ UNCHANGED notExec

\* mutant: the classification is lost, every exhaustion is an error
RaisedAs_always_error(last_exception) ==
    IF last_exception = "none" THEN "raised_timeout" ELSE "raised_error"

\* isinstance(last_exception, asyncio.TimeoutError): raise
\* asyncio.TimeoutError, else raise Exception
RaisedAs(last_exception) ==
    IF last_exception = "timeout" THEN "raised_timeout" ELSE "raised_error"

\* "All retries failed": raise by the kind of last_exception
ExecRaise ==
    /\ c_pc = "exhausted"
    /\ c_pc' = RaisedAs(c_last_exception)
    /\ UNCHANGED <<c_command, c_env, c_retries, c_attempt, c_spawned, c_alive,
                   c_last_exception, c_result, c_sleeps>>
    /\ UNCHANGED <<c_child_env, c_returncode>>
    /\ UNCHANGED c_log
    /\ UNCHANGED notExec

NextExec ==
    \/ ExecValidate
    \/ ExecSpawn
    \/ ExecSpawnError
    \/ ExecComplete
    \/ ExecDecodeError
    \/ ExecTimeout
    \/ ExecKill
    \/ ExecSleep
    \/ ExecRaise

SpecExec == InitExec /\ [][NextExec]_vars

----------------------------------------------------------------------------
(* conversion_pipeline.py: _validate_zip_path and the file system *)

\* Security constants for ZIP extraction
MAX_EXTRACTION_DEPTH == 10
MAX_NESTED_ZIP_COUNT == 0

DotDot == <<".", ".">>

\* A path is a sequence of segments, a segment a string.  The extraction
\* directory is /t/w/e: base directory t, workspace w, "extracted" e.
workspace_dir == << <<"t">>, <<"w">> >>
extract_root == Append(workspace_dir, <<"e">>)

\* the part of s after the first occurrence of c: s.split(c, 1)[1]
RECURSIVE AfterFirst(_, _)
AfterFirst(s, c) ==
    IF Len(s) = 0 THEN <<>>
    ELSE IF s[1] = c THEN Tail(s)
    ELSE AfterFirst(Tail(s), c)

\* mutant: leading separators and drive prefixes are left in place
normalize_zip_path_keep(path) == path

\* normalized = path.lstrip("/\\"); drive letters removed
normalize_zip_path(path) ==
    LET stripped == lstrip(path, {"/", "\\"})
    IN IF Contains(stripped, ":")
       THEN lstrip(AfterFirst(stripped, ":"), {"/", "\\"})
       ELSE stripped

\* pathlib parsing of a relative string: empty and "." segments are dropped,
\* ".." segments are kept
PathParts(s) ==
    SelectSeq(split(s, "/"), LAMBDA seg : seg # <<>> /\ seg # <<".">>)

ParentOf(p) == IF Len(p) = 0 THEN p ELSE SubSeq(p, 1, Len(p) - 1)

\* Path.resolve() of base/parts on a tree without symbolic links: ".." steps
\* to the parent, and the parent of / is /
RECURSIVE ResolveFrom(_, _)
ResolveFrom(base, parts) ==
    IF Len(parts) = 0 THEN base
    ELSE IF Head(parts) = DotDot THEN ResolveFrom(ParentOf(base), Tail(parts))
    ELSE ResolveFrom(Append(base, Head(parts)), Tail(parts))

\* resolved_path.relative_to(resolved_extract) does not raise
IsRelativeTo(p, root) ==
    Len(p) >= Len(root) /\ SubSeq(p, 1, Len(root)) = root

\* mutant: no check of the directory depth
validate_zip_path_no_depth(path, extract_path) ==
    LET normalized == normalize_zip_path(path)
        resolved_path == ResolveFrom(extract_path, PathParts(normalized))
    IN IF Contains(normalized, NUL) THEN "null_byte"
       ELSE IF ~ IsRelativeTo(resolved_path, extract_path) THEN "path_traversal"
       ELSE "ok"

\* _validate_zip_path: "ok" (full_path is returned) or the ValueError raised
validate_zip_path(path, extract_path) ==
    LET normalized == normalize_zip_path(path)
        resolved_path == ResolveFrom(extract_path, PathParts(normalized))
        relative_parts == split(normalized, "/")
    IN IF Contains(normalized, NUL) THEN "null_byte"
       ELSE IF ~ IsRelativeTo(resolved_path, extract_path) THEN "path_traversal"
       ELSE IF Len(relative_parts) > MAX_EXTRACTION_DEPTH THEN "depth"
       ELSE "ok"

\* the parts of full_path = extract_path / normalized below extract_path
full_path_parts(path) == PathParts(normalize_zip_path(path))

\* str.lower() on the characters of the model
LowerChar(c) ==
    CASE c = "Z" -> "z" [] c = "I" -> "i" [] c = "P" -> "p"
      [] c = "T" -> "t" [] c = "X" -> "x" [] OTHER -> c

lower(s) == [i \in 1..Len(s) |-> LowerChar(s[i])]

EndsWithSeq(s, suffix) ==
    Len(s) >= Len(suffix) /\ SubSeq(s, Len(s) - Len(suffix) + 1, Len(s)) = suffix

NestedExtensions ==
    {<<".", "z", "i", "p">>, <<".", "j", "a", "r">>,
     <<".", "w", "a", "r">>, <<".", "e", "a", "r">>}

\* mutant: the extension is compared without lower()
IsNestedArchiveName_case_sensitive(filename) ==
    \E ext \in NestedExtensions : EndsWithSeq(filename, ext)

\* file_info.filename.lower().endswith((".zip", ".jar", ".war", ".ear"))
IsNestedArchiveName(filename) ==
    \E ext \in NestedExtensions : EndsWithSeq(lower(filename), ext)

\* safe_path.parent.mkdir(parents=True, exist_ok=True, mode=0o700) seen from
\* the directory cur: each missing directory on the way is created, ".."
\* steps to the parent, a regular file on the way makes it raise.  The
\* directories created before a raise stay.
RECURSIVE MkdirParents(_, _, _, _)
MkdirParents(cur, parts, dirs, files) ==
    IF Len(parts) = 0 THEN [ok |-> TRUE, dirs |-> dirs, at |-> cur]
    ELSE IF Head(parts) = DotDot
         THEN MkdirParents(ParentOf(cur), Tail(parts), dirs, files)
    ELSE LET t == Append(cur, Head(parts))
         IN IF t \in files THEN [ok |-> FALSE, dirs |-> dirs, at |-> cur]
            ELSE MkdirParents(t, Tail(parts), dirs \cup {t}, files)

\* One iteration of the for loop of extract_archive on file_info, with the
\* disk as it is: what happens ("skip_dir", "skip_symlink", "written" or the
\* kind of error raised) and the disk afterwards.
ExtractStep(file_info, nested, files, dirs, level) ==
    LET same == [files |-> files, dirs |-> dirs, nested |-> nested]
        verdict == validate_zip_path(file_info.filename, extract_root)
        parts == full_path_parts(file_info.filename)
        is_nested == IsNestedArchiveName(file_info.filename)
        nested1 == IF is_nested THEN nested + 1 ELSE nested
        made == MkdirParents(extract_root, ParentOf(parts), dirs, files)
        target ==
            IF Len(parts) = 0 THEN extract_root
            ELSE IF parts[Len(parts)] = DotDot THEN ParentOf(made.at)
            ELSE Append(made.at, parts[Len(parts)])
    IN IF endswith(file_info.filename, "/")
            THEN [what |-> "skip_dir"] @@ same
       ELSE IF IsSymlinkAttr(file_info.external_attr_hi)
            \* logger.warning(..., extra={"filename": ...}): when the record
            \* is made, logging raises KeyError("Attempt to overwrite
            \* 'filename' in LogRecord"); otherwise `continue`
            THEN [what |-> IF WarningEnabled(level) THEN "key_error" ELSE "skip_symlink"]
                 @@ same
       ELSE IF verdict # "ok"
            THEN [what |-> verdict] @@ same
       ELSE IF is_nested /\ nested1 > MAX_NESTED_ZIP_COUNT
            THEN [what |-> "nested_zip", files |-> files, dirs |-> dirs, nested |-> nested1]
       ELSE IF ~ made.ok
            THEN [what |-> "os_error", files |-> files, dirs |-> made.dirs, nested |-> nested1]
       ELSE IF IsEncrypted(file_info.flag_bits)
            \* zip_ref.open(file_info) raises before the target is opened
            THEN [what |-> "os_error", files |-> files, dirs |-> made.dirs, nested |-> nested1]
       ELSE IF target \in made.dirs
            \* open(safe_path, "wb") on a directory
            THEN [what |-> "os_error", files |-> files, dirs |-> made.dirs, nested |-> nested1]
       ELSE [what |-> "written", files |-> files \cup {target}, dirs |-> made.dirs,
             nested |-> nested1, target |-> target]

\* errors raised as ValueError by extract_archive
ValueErrors == {"null_byte", "path_traversal", "depth", "nested_zip", "bad_zip"}

\* chunk_size = 1024 * 1024, at the scale of the model
chunk_size == 2

\* mutant: the copy writes all the data the entry decompresses to
CopyEntry_all_data(declared, real, crc_matches) ==
    [bytes |-> real, ok |-> TRUE]

\* `while True: chunk = source.read(chunk_size) ... target.write(chunk)` on an
\* entry whose header declares `declared` bytes and whose data decompresses
\* to `real` >= declared bytes.  The file object of zip_ref.open never gives
\* more than the declared size and checks the CRC-32 when it reaches it: the
\* read that reaches it raises BadZipFile on a mismatch, so the chunks read
\* before it are written and that one is not.
CopyEntry(declared, real, crc_matches) ==
    IF declared = 0 \/ crc_matches
    THEN [bytes |-> declared, ok |-> TRUE]
    ELSE [bytes |-> ((declared - 1) \div chunk_size) * chunk_size, ok |-> FALSE]

----------------------------------------------------------------------------
(* Inputs of SpecExtract *)

PathChars == {"/", "\\", ".", "a", ":"}

AllPaths == SeqsUpTo(PathChars, MaxPathLen) \ {<<>>}

\* one-entry archives: every path, stored as a regular file or with one of
\* the two symlink attributes
PathArchives ==
    {<<Entry(fn, 1, 0, hi)>> : fn \in AllPaths, hi \in {33188, 40960, 41471}}

\* the path a/a/.../a of n segments
RECURSIVE DeepPath(_)
DeepPath(n) == IF n = 1 THEN <<"a">> ELSE <<"a", "/">> \o DeepPath(n - 1)

\* a/../b, ../b/../e/a, ../../x, a.zip, a.ZIP, a/a, a, b/, and paths of
\* MAX_EXTRACTION_DEPTH and MAX_EXTRACTION_DEPTH + 1 segments
\* declared sizes of the larger entries: half the decompressed-size limit,
\* and more than half of it
BigSizes == {max_decompressed_ceiling \div 2, max_decompressed_ceiling \div 2 + 1}

ExtractPoolNames ==
    {<<"a", "/", ".", ".", "/", "b">>,
     <<".", ".", "/", "b", "/", ".", ".", "/", "e", "/", "a">>,
     <<".", ".", "/", ".", ".", "/", "x">>,
     <<"a", ".", "z", "i", "p">>,
     <<"a", ".", "Z", "I", "P">>,
     <<"a", "/", "a">>,
     <<"a">>,
     <<"b", "/">>,
     DeepPath(MAX_EXTRACTION_DEPTH),
     DeepPath(MAX_EXTRACTION_DEPTH + 1)}

ExtractPoolEntries ==
    {Entry(fn, 1, 0, 33188) : fn \in ExtractPoolNames}
    \cup {Entry(<<"a">>, 1, 0, 40960), Entry(<<"a">>, 1, 1, 33188)}
    \cup {Entry(<<"b">>, sz, 0, 33188) : sz \in BigSizes}
    \* a symlink entry with a nested-archive name, a directory entry deeper
    \* than MAX_EXTRACTION_DEPTH
    \cup {Entry(<<"a", ".", "z", "i", "p">>, 1, 0, 40960),
          Entry(DeepPath(MAX_EXTRACTION_DEPTH + 1) \o <<"/">>, 0, 0, 16877)}

\* how much more than declared an entry can decompress to: nothing, or more
\* than the whole decompressed-size limit
Excess == {0, max_decompressed_ceiling + 1}

\* the real sizes the entries of zip can have
RealSizes(zip) ==
    {real \in [1..Len(zip) -> 0..(2 * max_decompressed_ceiling + 1)] :
        \A i \in 1..Len(zip) : real[i] - zip[i].file_size \in Excess}

ExtractPoolArchives == SeqsUpTo(ExtractPoolEntries, MaxPoolEntries)

----------------------------------------------------------------------------
(* SpecExtract: ConversionPipeline.extract_archive *)

\* extract_path.mkdir(exist_ok=True) has run in a fresh workspace
InitExtract ==
    /\ x_zip \in PathArchives \cup ExtractPoolArchives
    /\ x_real \in IF x_zip \in PathArchives
                  THEN {[i \in 1..Len(x_zip) |-> x_zip[i].file_size]}
                  ELSE RealSizes(x_zip)
    /\ x_written = 0
    \* the level matters to archives with a symlink entry only
    /\ x_log_level \in IF \E i \in 1..Len(x_zip) : IsSymlinkAttr(x_zip[i].external_attr_hi)
                       THEN LogLevels ELSE {log_level}
    /\ fs_mode = <<>>
    /\ x_pc = "loop"
    /\ x_i = 0
    /\ nested_zip_count = 0
    /\ extracted_files = <<>>
    /\ x_error = "none"
    /\ fs_files = {}
    /\ fs_dirs = {<<>>, << <<"t">> >>, workspace_dir, extract_root}
    /\ IdleValidate
    /\ IdleExec
    /\ IdleRequests
    /\ IdlePipeline
    /\ IdleSanitize
    /\ IdleLimits
    /\ IdleRepeat

\* 0o600, the mode of os.chmod(safe_path, 0o600)
safe_mode == 384

\* 0o644: the mode open(safe_path, "wb") gives a file it creates, 0o666
\* masked by the usual umask 0o022
created_mode == 420

\* mutant: no os.chmod after the copy
ModeAfter_no_chmod(mode, target, copied) ==
    IF target \in DOMAIN mode THEN mode
    ELSE [f \in DOMAIN mode \cup {target} |->
             IF f = target THEN created_mode ELSE mode[f]]

\* the permission bits after one entry is written to target: open(safe_path,
\* "wb") creates the file or truncates the one there, keeping its mode; after
\* a complete copy os.chmod(safe_path, 0o600)
ModeAfter(mode, target, copied) ==
    [f \in DOMAIN mode \cup {target} |->
        IF f = target
        THEN IF copied THEN safe_mode
             ELSE IF target \in DOMAIN mode THEN mode[target] ELSE created_mode
        ELSE mode[f]]

\* one iteration of `for file_info in zip_ref.infolist()`; the stored CRC-32
\* of the entry matches the data read or does not (BadZipFile, raised by
\* extract_archive as ValueError("Invalid ZIP file: ..."))
ExtractEntry ==
    /\ x_pc = "loop"
    /\ x_i < Len(x_zip)
    /\ \E crc_matches \in BOOLEAN :
       LET file_info == x_zip[x_i + 1]
           r == ExtractStep(file_info, nested_zip_count, fs_files, fs_dirs, x_log_level)
           copy == CopyEntry(file_info.file_size, x_real[x_i + 1], crc_matches)
           copied == r.what = "written" /\ copy.ok
       IN /\ x_real[x_i + 1] = file_info.file_size => crc_matches
          /\ x_i' = x_i + 1
          /\ nested_zip_count' = r.nested
          /\ fs_files' = r.files
          /\ fs_dirs' = r.dirs
          /\ x_written' = IF r.what = "written" THEN x_written + copy.bytes
                          ELSE x_written
          /\ fs_mode' = IF r.what = "written"
                        THEN ModeAfter(fs_mode, r.target, copied)
                        ELSE fs_mode
          /\ extracted_files' =
                IF copied
                THEN Append(extracted_files, extract_root \o full_path_parts(file_info.filename))
                ELSE extracted_files
          /\ IF r.what \in {"skip_dir", "skip_symlink"} \/ copied
             THEN UNCHANGED <<x_pc, x_error>>
             ELSE /\ x_pc' = "raised"
                  /\ x_error' = IF r.what = "written" THEN "bad_zip" ELSE r.what
    /\ UNCHANGED <<x_zip, x_real, x_log_level>>
    /\ UNCHANGED notExtract

\* return extracted_files
ExtractReturn ==
    /\ x_pc = "loop"
    /\ x_i = Len(x_zip)
    /\ x_pc' = "returned"
    /\ UNCHANGED <<x_zip, x_i, nested_zip_count, extracted_files, x_error, x_real,
                   x_written, x_log_level, fs_mode, fs_files, fs_dirs>>
    /\ UNCHANGED notExtract

NextExtract == ExtractEntry \/ ExtractReturn

SpecExtract == InitExtract /\ [][NextExtract]_vars

----------------------------------------------------------------------------
(* file_validation.py: sanitize_filename and validate_upload_file *)

\* settings.max_upload_size_mb * 1024 * 1024 (100 MB), in the size units of
\* the model
max_upload_size == 2

MAX_FILENAME_LENGTH == 255

SAFE_FILENAME_CHARS ==
    {"a", "b", "c", "d", "e", "f", "g", "h", "i", "j", "k", "l", "m",
     "n", "o", "p", "q", "r", "s", "t", "u", "v", "w", "x", "y", "z",
     "A", "B", "C", "D", "E", "F", "G", "H", "I", "J", "K", "L", "M",
     "N", "O", "P", "Q", "R", "S", "T", "U", "V", "W", "X", "Y", "Z",
     "0", "1", "2", "3", "4", "5", "6", "7", "8", "9",
     "-", "_", ".", "(", ")", ":", "!", "[", "]", "&", "<", ">", "@",
     "#", "$", "%", "^", "+", "=", ",", ";"}

\* characters c with ord(c) < 32 that the model tells apart
ControlChars == {NUL, "SOH", "TAB", "LF", "CR"}

\* os.path.basename(filename): what follows the last "/"
basename(filename) == LET parts == split(filename, "/") IN parts[Len(parts)]

\* Path(filename).name
PathName(filename) == IF filename = <<".">> THEN <<>> ELSE filename

\* sanitize_filename(filename): ok with the returned name, or the reason of
\* the FileValidationError
sanitize_filename(filename) ==
    LET base == basename(filename)
        parts == split(base, ".")
        reject(why) == [ok |-> FALSE, name |-> <<>>, reason |-> why]
        accept == [ok |-> TRUE, name |-> base, reason |-> "none"]
    IN IF filename = <<>> THEN reject("empty_filename")
       ELSE IF Contains(filename, NUL) THEN reject("filename_null_byte")
       ELSE IF ContainsAny(filename, ControlChars \ {"TAB", "LF", "CR"})
            THEN reject("filename_control")
       ELSE IF Contains(base, "/") \/ Contains(base, "\\")
            THEN reject("filename_separator")
       ELSE IF Len(base) > MAX_FILENAME_LENGTH THEN reject("filename_too_long")
       ELSE IF \E k \in 1..Len(base) : base[k] \notin SAFE_FILENAME_CHARS
            THEN reject("filename_unsafe")
       ELSE IF startswith(base, ".")
            THEN IF Len(parts) >= 3 /\ parts[1] = <<>> /\ startswith(parts[2], "_")
                      THEN accept
                 ELSE IF \/ Len(parts) > 1 /\ parts[1] = <<>> /\ parts[2] # <<>>
                         \/ (Len(base) >= 2 /\ base[2] = ".")
                      THEN reject("filename_hidden")
                 ELSE accept
       ELSE accept

\* An upload: the length of its content, whether the content starts with a
\* ZIP magic number, the client's filename, whether zipfile.ZipFile can open
\* the content, and the entries it then lists.
Upload(sz, magic, fn, wf, zip) ==
    [file_size |-> sz, magic |-> magic, filename |-> fn, well_formed |-> wf,
     zip |-> zip]

\* file.filename or "upload.zip"
FilenameOrDefault(u) ==
    IF u.filename = <<>> THEN <<"u", "p", "l", "o", "a", "d", ".", "z", "i", "p">>
    ELSE u.filename

\* mutant: the archive is not inspected (step 4 left out)
validate_upload_file_no_archive_check(u) ==
    IF u.file_size > max_upload_size THEN "file_size"
    ELSE IF u.file_size = 0 THEN "empty_file"
    ELSE IF ~ u.magic THEN "not_zip"
    ELSE IF ~ sanitize_filename(FilenameOrDefault(u)).ok
         THEN sanitize_filename(FilenameOrDefault(u)).reason
    ELSE "accepted"

\* validate_upload_file(file): "accepted", or the reason of the
\* FileValidationError that becomes HTTP 400
validate_upload_file(u) ==
    IF u.file_size > max_upload_size THEN "file_size"
    ELSE IF u.file_size = 0 THEN "empty_file"
    ELSE IF ~ u.magic THEN "not_zip"
    ELSE IF ~ sanitize_filename(FilenameOrDefault(u)).ok
         THEN sanitize_filename(FilenameOrDefault(u)).reason
    ELSE IF ~ u.well_formed THEN "bad_zip"
    ELSE validate_zip_bomb_protection(u.zip, u.file_size)

----------------------------------------------------------------------------
(* SpecSanitize: sanitize_filename on every short filename, then on its own *)
(* result, and the workspace path built from the result                     *)

\* characters of a declared filename: a letter, the dot, the underscore, the
\* two separators, NUL, the control characters \x01 and tab
FilenameChars == {"a", ".", "_", "/", "\\", NUL, "SOH", "TAB"}

InitSanitize ==
    /\ s_pc = "start"
    /\ s_filename \in SeqsUpTo(FilenameChars, MaxFilenameLen)
    /\ s_result = <<>>
    /\ s_again = <<>>
    /\ s_path = <<>>
    /\ IdleValidate
    /\ IdleExec
    /\ IdleExtract
    /\ IdleRequests
    /\ IdlePipeline
    /\ IdleLimits
    /\ IdleRepeat

\* sanitize_filename(filename)
SanitizeFilename ==
    /\ s_pc = "start"
    /\ s_result' = <<sanitize_filename(s_filename)>>
    /\ s_pc' = "sanitized"
    /\ UNCHANGED <<s_filename, s_again, s_path>>
    /\ UNCHANGED notSanitize

\* sanitize_filename applied to the name it returned
SanitizeAgain ==
    /\ s_pc = "sanitized"
    /\ s_result[1].ok
    /\ s_again' = <<sanitize_filename(s_result[1].name)>>
    /\ s_pc' = "again"
    /\ UNCHANGED <<s_filename, s_result, s_path>>
    /\ UNCHANGED notSanitize

\* file_path = workspace_manager.get_file_path(workspace, safe_filename):
\* workspace / Path(safe_filename).name
GetFilePath ==
    /\ s_pc = "sanitized"
    /\ s_result[1].ok
    /\ s_path' = <<PathName(s_result[1].name)>>
    /\ s_pc' = "path"
    /\ UNCHANGED <<s_filename, s_result, s_again>>
    /\ UNCHANGED notSanitize

NextSanitize == SanitizeFilename \/ SanitizeAgain \/ GetFilePath

SpecSanitize == InitSanitize /\ [][NextSanitize]_vars

----------------------------------------------------------------------------
(* conversion_pipeline.py: extract_archive and convert_with_swift_cli as    *)
(* functions of their inputs                                                *)

RECURSIVE ExtractFrom(_, _, _, _, _)
ExtractFrom(zip, i, nested, files, dirs) ==
    IF i > Len(zip) THEN [what |-> "returned", files |-> files, dirs |-> dirs]
    ELSE LET r == ExtractStep(zip[i], nested, files, dirs, log_level)
         IN IF r.what \in {"skip_dir", "skip_symlink", "written"}
            THEN ExtractFrom(zip, i + 1, r.nested, r.files, r.dirs)
            ELSE [what |-> r.what, files |-> r.files, dirs |-> r.dirs]

\* extract_archive(archive_path, workspace / "extracted") in a workspace that
\* holds nothing else under "extracted"
extract_archive(zip) ==
    ExtractFrom(zip, 1, 0, {}, {<<>>, << <<"t">> >>, workspace_dir, extract_root})

\* a directory was made inside the workspace but outside "extracted"
MadeStrayDirectory(dirs) ==
    \E d \in dirs : /\ IsRelativeTo(d, workspace_dir)
                    /\ d # workspace_dir
                    /\ ~ IsRelativeTo(d, extract_root)

\* What the conversion command can do: exit 0 leaving a non-empty output
\* directory, exit 0 leaving none, exit 0 leaving an empty one, exit with a
\* non-zero code, or never complete (execute_command raises).
ConvertResults ==
    {"output_made", "no_output_dir", "empty_output_dir", "failed_exit", "exec_raised"}

\* "No such file or directory" in str(e) or "docc2context" in str(e): the
\* message of an execute_command failure quotes the command, which starts
\* with settings.swift_cli_path; the message of a non-zero exit quotes the
\* tool's output, which may or may not mention the marker.
IsMockFallback(result, output_mentions) ==
    \/ result = "exec_raised"
    \/ result = "failed_exit" /\ output_mentions

----------------------------------------------------------------------------
(* Inputs of Spec *)

GoodZip == <<Entry(<<"a">>, 1, 0, 33188)>>

ZipName == <<"a", ".", "z", "i", "p">>

\* a well-formed upload, one with a traversal entry (refused by validation),
\* one holding a nested archive (refused by extraction), one named "."
\* (accepted by sanitize_filename, not storable); then one upload for each
\* other way validation refuses: too large, not a ZIP signature, a filename
\* with an unsafe character, too many entries, decompressed size over the
\* limit, an encrypted entry, a symlink entry
Uploads ==
    {Upload(1, TRUE, ZipName, TRUE, GoodZip),
     Upload(1, TRUE, ZipName, TRUE, <<Entry(<<".", ".", "/", "a">>, 1, 0, 33188)>>),
     Upload(1, TRUE, ZipName, TRUE, <<Entry(ZipName, 1, 0, 33188)>>),
     Upload(1, TRUE, <<".">>, TRUE, GoodZip),
     Upload(max_upload_size + 1, TRUE, ZipName, TRUE, GoodZip),
     Upload(1, FALSE, ZipName, FALSE, <<>>),
     Upload(1, TRUE, <<"a", "*">>, TRUE, GoodZip),
     Upload(1, TRUE, ZipName, TRUE,
            [i \in 1..(max_files + 1) |-> Entry(<<"a">>, 1, 0, 33188)]),
     Upload(1, TRUE, ZipName, TRUE,
            <<Entry(<<"a">>, max_decompressed_ceiling, 0, 33188)>>),
     Upload(1, TRUE, ZipName, TRUE, <<Entry(<<"a">>, 1, 1, 33188)>>),
     Upload(1, TRUE, ZipName, TRUE, <<Entry(<<"a">>, 1, 0, S_IFLNK)>>)}

Reqs == 1..NumRequests

WsNames == 1..NumNames

\* workspace_path = None
None == 0

\* what a workspace directory can hold
WsItems == {"upload", "extracted", "stray_dir", "converted_output", "output.zip"}

----------------------------------------------------------------------------
(* Spec: concurrent convert_file requests (endpoints.py), each inside the   *)
(* create_workspace context manager (workspace_manager.py)                  *)

Init ==
    /\ ws_dirs = {}
    /\ ws_files = [n \in WsNames |-> {}]
    /\ r_pc = [r \in Reqs |-> "idle"]
    /\ workspace_name = [r \in Reqs |-> None]
    /\ workspace_path = [r \in Reqs |-> None]
    /\ r_upload = [r \in Reqs |-> <<>>]
    /\ r_exc = [r \in Reqs |-> "none"]
    /\ r_status = [r \in Reqs |-> "pending"]
    /\ r_log = [r \in Reqs |-> {}]
    /\ cleaned = [r \in Reqs |-> <<>>]
    /\ IdleValidate
    /\ IdleExec
    /\ IdleExtract
    /\ IdlePipeline
    /\ IdleSanitize
    /\ IdleLimits
    /\ IdleRepeat

\* the request leaves the body of the `async with` with exception exc
Raise(r, exc) ==
    /\ r_exc' = [r_exc EXCEPT ![r] = exc]
    /\ r_pc' = [r_pc EXCEPT ![r] = "exit"]

\* the request goes on to the next statement
Goto(r, pc) ==
    /\ r_pc' = [r_pc EXCEPT ![r] = pc]
    /\ UNCHANGED r_exc

\* something is put in the workspace the request holds
Put(r, items) ==
    ws_files' = [ws_files EXCEPT ![workspace_path[r]] = @ \cup items]

\* create_workspace entered: workspace_name = self._generate_workspace_name()
\* and workspace_path = None
GenerateWorkspaceName(r) ==
    /\ r_pc[r] = "idle"
    /\ \E n \in WsNames : workspace_name' = [workspace_name EXCEPT ![r] = n]
    /\ r_pc' = [r_pc EXCEPT ![r] = "create"]
    /\ UNCHANGED <<ws_dirs, ws_files, workspace_path, r_upload, r_exc, r_status,
                   r_log, cleaned>>
    /\ UNCHANGED notRequests

\* mutant: mkdir(exist_ok=True)
MkdirSucceeds_exist_ok(name, dirs) == name = name

\* workspace_path.mkdir(mode=..., parents=True, exist_ok=False)
MkdirSucceeds(name, dirs) == name \notin dirs

\* _create_workspace_directory(workspace_name): the directory is made and
\* yielded, or FileExistsError is logged and raised
CreateWorkspaceDirectory(r) ==
    /\ r_pc[r] = "create"
    /\ IF MkdirSucceeds(workspace_name[r], ws_dirs)
       THEN /\ ws_dirs' = ws_dirs \cup {workspace_name[r]}
            /\ workspace_path' = [workspace_path EXCEPT ![r] = workspace_name[r]]
            /\ r_log' = [r_log EXCEPT ![r] = @ \cup {"created"}]
            /\ Goto(r, "validate")
       ELSE /\ r_log' = [r_log EXCEPT ![r] = @ \cup {"create_failed"}]
            /\ Raise(r, "FileExistsError")
            /\ UNCHANGED <<ws_dirs, workspace_path>>
    /\ UNCHANGED <<ws_files, workspace_name, r_upload, r_status, cleaned>>
    /\ UNCHANGED notRequests

\* mutant: after the logged failure the creation is attempted again
CreateWorkspaceOSError_retried(r) ==
    /\ r_pc[r] = "create"
    /\ r_log' = [r_log EXCEPT ![r] = @ \cup {"create_failed"}]
    /\ UNCHANGED <<ws_dirs, ws_files, workspace_name, workspace_path, r_upload,
                   r_exc, r_pc, r_status, cleaned>>
    /\ UNCHANGED notRequests

\* _create_workspace_directory: mkdir raises another OSError
CreateWorkspaceOSError(r) ==
    /\ r_pc[r] = "create"
    /\ r_log' = [r_log EXCEPT ![r] = @ \cup {"create_failed"}]
    /\ Raise(r, "OSError")
    /\ UNCHANGED <<ws_dirs, ws_files, workspace_name, workspace_path, r_upload,
                   r_status, cleaned>>
    /\ UNCHANGED notRequests

\* mutant: the handler turns whatever is raised into HTTP 500
ThroughHandler_wrap_all(exc) == "HTTP500"

\* what leaves the try block of convert_file: `except HTTPException: raise`,
\* `except Exception: raise HTTPException(status_code=500, ...)`
ThroughHandler(exc) == IF exc \in {"HTTP400", "HTTP500"} THEN exc ELSE "HTTP500"

\* content, safe_filename = await validate_upload_file(file); every
\* FileValidationError leaves it as HTTPException(status_code=400)
ValidateUpload(r) ==
    /\ r_pc[r] = "validate"
    /\ \E u \in Uploads :
        /\ r_upload' = [r_upload EXCEPT ![r] = <<u>>]
        /\ IF validate_upload_file(u) = "accepted"
           THEN Goto(r, "store")
           ELSE Raise(r, ThroughHandler("HTTP400"))
    /\ UNCHANGED <<ws_dirs, ws_files, workspace_name, workspace_path, r_status,
                   r_log, cleaned>>
    /\ UNCHANGED notRequests

\* validate_upload_file: file.read() raises, turned into HTTP 500
ValidateUnexpectedError(r) ==
    /\ r_pc[r] = "validate"
    /\ Raise(r, ThroughHandler("HTTP500"))
    /\ UNCHANGED <<ws_dirs, ws_files, workspace_name, workspace_path, r_upload,
                   r_status, r_log, cleaned>>
    /\ UNCHANGED notRequests

\* file_path = get_file_path(workspace, safe_filename); open(file_path, "wb")
\* and f.write(content).  An empty final component makes file_path the
\* workspace itself and open() raise; the write can also fail part-way.
StoreUpload(r) ==
    /\ r_pc[r] = "store"
    /\ LET safe_filename == sanitize_filename(FilenameOrDefault(r_upload[r][1])).name
       IN IF PathName(safe_filename) = <<>>
          THEN Raise(r, ThroughHandler("OSError")) /\ UNCHANGED ws_files
          ELSE /\ Put(r, {"upload"})
               /\ \/ Goto(r, "extract")
                  \/ Raise(r, ThroughHandler("OSError"))
    /\ UNCHANGED <<ws_dirs, workspace_name, workspace_path, r_upload, r_status,
                   r_log, cleaned>>
    /\ UNCHANGED notRequests

\* run_complete_pipeline step 1: extract_archive(input_zip_path,
\* workspace / "extracted")
ExtractArchive(r) ==
    /\ r_pc[r] = "extract"
    /\ LET res == extract_archive(r_upload[r][1].zip)
       IN /\ Put(r, {"extracted"} \cup
                    (IF MadeStrayDirectory(res.dirs) THEN {"stray_dir"} ELSE {}))
          /\ IF res.what = "returned"
             THEN Goto(r, "convert")
             ELSE Raise(r, "HTTP500")
    /\ UNCHANGED <<ws_dirs, workspace_name, workspace_path, r_upload, r_status,
                   r_log, cleaned>>
    /\ UNCHANGED notRequests

\* run_complete_pipeline step 3: convert_with_swift_cli
ConvertWithSwiftCli(r) ==
    /\ r_pc[r] = "convert"
    /\ \E result \in ConvertResults, output_mentions \in BOOLEAN :
        IF result = "output_made" \/ IsMockFallback(result, output_mentions)
        \* the tool's output directory, or the mock result file written in
        \* its place
        THEN /\ Put(r, {"converted_output"})
             /\ Goto(r, "package")
        ELSE /\ Put(r, IF result = "empty_output_dir" THEN {"converted_output"} ELSE {})
             /\ Raise(r, "HTTP500")
    /\ UNCHANGED <<ws_dirs, workspace_name, workspace_path, r_upload, r_status,
                   r_log, cleaned>>
    /\ UNCHANGED notRequests

\* run_complete_pipeline steps 4 and 5: collect_markdown_files and
\* create_output_zip (which can fail while writing)
CreateOutputZip(r) ==
    /\ r_pc[r] = "package"
    /\ Put(r, {"output.zip"})
    /\ \/ Goto(r, "read")
       \/ Raise(r, "HTTP500")
    /\ UNCHANGED <<ws_dirs, workspace_name, workspace_path, r_upload, r_status,
                   r_log, cleaned>>
    /\ UNCHANGED notRequests

\* zip_content = zip_file.read(); return Response(content=zip_content)
ReadOutput(r) ==
    /\ r_pc[r] = "read"
    /\ "output.zip" \in ws_files[workspace_path[r]]
    /\ Goto(r, "exit")
    /\ UNCHANGED <<ws_dirs, ws_files, workspace_name, workspace_path, r_upload,
                   r_status, r_log, cleaned>>
    /\ UNCHANGED notRequests

\* the task is cancelled while suspended at an await (file.read() in
\* validation, the child process in conversion): CancelledError is raised
\* there and is not an Exception
Cancel(r) ==
    /\ r_pc[r] \in {"validate", "convert"}
    /\ Raise(r, "CancelledError")
    /\ UNCHANGED <<ws_dirs, ws_files, workspace_name, workspace_path, r_upload,
                   r_status, r_log, cleaned>>
    /\ UNCHANGED notRequests

\* the response the client gets for what left the handler
StatusOf(exc) ==
    CASE exc = "none" -> "200"
      [] exc = "HTTP400" -> "400"
      [] exc = "CancelledError" -> "cancelled"
      [] OTHER -> "500"

\* mutant: the finally block cleans up unconditionally
ShouldCleanup_always(path) == path = path

\* finally: `if workspace_path:`
ShouldCleanup(path) == path # None

\* mutant: rmtree that removes nothing
rmtree_noop(dirs, path) == dirs

\* shutil.rmtree(workspace_path) that succeeds
rmtree(dirs, path) == dirs \ {path}

\* mutant: the workspace is released once the archive is written, before it
\* is read
ScopeLeft_before_read(pc) == pc \in {"read", "exit"}

\* control leaves the body of `async with workspace_manager.create_workspace()`
\* by the return statement that follows the read, or by an exception
ScopeLeft(pc) == pc = "exit"

\* create_workspace is left: the except and finally blocks run, with
\* _cleanup_workspace finding the directory and removing it, or not finding
\* it, or not being called; the handler's frame and the upload it read go
\* away with it
ExitScope(r) ==
    /\ ScopeLeft(r_pc[r])
    /\ LET path == workspace_path[r]
       IN IF ShouldCleanup(path)
          THEN /\ cleaned' = [cleaned EXCEPT ![r] = Append(@, path)]
               /\ IF path \in ws_dirs
                  THEN /\ ws_dirs' = rmtree(ws_dirs, path)
                       /\ ws_files' = [ws_files EXCEPT ![path] = {}]
                       /\ r_log' = [r_log EXCEPT ![r] =
                                       @ \cup {"cleaned_up"}]
                  ELSE /\ r_log' = [r_log EXCEPT ![r] =
                                       @ \cup {"cleanup_missing"}]
                       /\ UNCHANGED <<ws_dirs, ws_files>>
          ELSE UNCHANGED <<ws_dirs, ws_files, cleaned, r_log>>
    /\ r_status' = [r_status EXCEPT ![r] = StatusOf(r_exc[r])]
    /\ r_pc' = [r_pc EXCEPT ![r] = "done"]
    /\ r_upload' = [r_upload EXCEPT ![r] = <<>>]
    /\ UNCHANGED <<workspace_name, workspace_path, r_exc>>
    /\ UNCHANGED notRequests

\* mutant: the OSError of a failed deletion is raised
AfterCleanupFailure_raised(exc) == "OSError"

\* _cleanup_workspace, `except OSError`: logged, not raised; what was leaving
\* the scope goes on leaving it
AfterCleanupFailure(exc) == exc

\* create_workspace is left and shutil.rmtree raises OSError: the error is
\* logged and swallowed, the directory stays (what rmtree removed of its
\* content before failing is not tracked)
ExitScopeCleanupFails(r) ==
    /\ ScopeLeft(r_pc[r])
    /\ ShouldCleanup(workspace_path[r])
    /\ workspace_path[r] \in ws_dirs
    /\ cleaned' = [cleaned EXCEPT ![r] = Append(@, workspace_path[r])]
    /\ UNCHANGED ws_files
    /\ r_log' = [r_log EXCEPT ![r] = @ \cup {"cleanup_failed"}]
    /\ r_status' = [r_status EXCEPT ![r] = StatusOf(AfterCleanupFailure(r_exc[r]))]
    /\ r_pc' = [r_pc EXCEPT ![r] = "done"]
    /\ r_upload' = [r_upload EXCEPT ![r] = <<>>]
    /\ UNCHANGED <<ws_dirs, workspace_name, workspace_path, r_exc>>
    /\ UNCHANGED notRequests

Next ==
    \E r \in Reqs :
        \/ GenerateWorkspaceName(r)
        \/ CreateWorkspaceDirectory(r)
        \/ CreateWorkspaceOSError(r)
        \/ ValidateUpload(r)
        \/ ValidateUnexpectedError(r)
        \/ StoreUpload(r)
        \/ ExtractArchive(r)
        \/ ConvertWithSwiftCli(r)
        \/ CreateOutputZip(r)
        \/ ReadOutput(r)
        \/ Cancel(r)
        \/ ExitScope(r)
        \/ ExitScopeCleanupFails(r)

Spec == Init /\ [][Next]_vars

----------------------------------------------------------------------------
(* SpecSweep: the requests of Spec running beside the clean-up script       *)
(* (scripts/cleanup_workspaces.py, run from cron), which calls              *)
(* cleanup_orphaned_workspaces in a process of its own                      *)

\* cleanup_orphaned_workspaces, one turn of its loop over
\* base_path.iterdir(): a directory whose name starts with the prefix is
\* removed by shutil.rmtree(item); nothing is asked about who holds it
CleanupOrphanedWorkspaces ==
    /\ \E item \in ws_dirs :
          /\ ws_dirs' = rmtree(ws_dirs, item)
          /\ ws_files' = [ws_files EXCEPT ![item] = {}]
    /\ UNCHANGED <<r_pc, workspace_name, workspace_path, r_upload, r_exc,
                   r_status, r_log, cleaned>>
    /\ UNCHANGED notRequests

\* the directory the request was given is no longer there
WorkspaceRemoved(r) ==
    workspace_path[r] # None /\ workspace_path[r] \notin ws_dirs

\* a stage that works in the workspace finds it gone: open(file_path, "wb"),
\* extract_path.mkdir(exist_ok=True), the child's input, zipfile.ZipFile(
\* output_zip_path, "w") and open(output_zip_path, "rb") raise
\* FileNotFoundError, none of them makes the directory again
StageWithoutWorkspace(r) ==
    /\ r_pc[r] \in {"store", "extract", "convert", "package", "read"}
    /\ WorkspaceRemoved(r)
    /\ Raise(r, ThroughHandler("FileNotFoundError"))
    /\ UNCHANGED <<ws_dirs, ws_files, workspace_name, workspace_path, r_upload,
                   r_status, r_log, cleaned>>
    /\ UNCHANGED notRequests

NextSweep ==
    \/ CleanupOrphanedWorkspaces
    \/ \E r \in Reqs :
        \/ GenerateWorkspaceName(r)
        \/ CreateWorkspaceDirectory(r)
        \/ CreateWorkspaceOSError(r)
        \/ ValidateUpload(r)
        \/ ValidateUnexpectedError(r)
        \/ ~ WorkspaceRemoved(r) /\ StoreUpload(r)
        \/ ~ WorkspaceRemoved(r) /\ ExtractArchive(r)
        \/ ~ WorkspaceRemoved(r) /\ ConvertWithSwiftCli(r)
        \/ ~ WorkspaceRemoved(r) /\ CreateOutputZip(r)
        \/ ~ WorkspaceRemoved(r) /\ ReadOutput(r)
        \/ StageWithoutWorkspace(r)
        \/ Cancel(r)
        \/ ExitScope(r)
        \/ ExitScopeCleanupFails(r)

SpecSweep == Init /\ [][NextSweep]_vars

----------------------------------------------------------------------------
(* SpecLimits: an archive put through validate_zip_bomb_protection and then *)
(* extract_archive by a process started with max_zip_files and              *)
(* max_zip_depth set in its environment                                     *)

\* values of MAX_ZIP_FILES and MAX_ZIP_DEPTH in the environment: the
\* defaults, and values around them
SettingsValues ==
    [max_zip_files : (max_zip_files - 1)..(max_zip_files + 2),
     max_zip_depth : (max_zip_depth - 1)..(max_zip_depth + 2)]

\* archives of some regular files at one depth
LimitArchives ==
    {[i \in 1..n |-> Entry(DeepPath(d), 1, 0, 33188)] :
        n \in 1..(max_zip_files + 2),
        d \in (max_zip_depth - 1)..(max_zip_depth + 2)}

InitLimits ==
    /\ settings \in SettingsValues
    /\ l_pc = "start"
    /\ l_zip \in LimitArchives
    /\ l_validation = <<>>
    /\ l_extraction = <<>>
    /\ IdleValidate
    /\ IdleExec
    /\ IdleExtract
    /\ IdleRequests
    /\ IdlePipeline
    /\ IdleSanitize
    /\ IdleRepeat

\* validate_upload_file: validate_zip_bomb_protection(zip_file, file_size) on
\* an upload of 2 size units; it does not read settings.max_zip_files
LimitsValidate ==
    /\ l_pc = "start"
    /\ LET result == validate_zip_bomb_protection(l_zip, 2)
       IN /\ l_validation' = << result >>
          /\ l_pc' = IF result = "accepted" THEN "validated" ELSE "rejected"
    /\ UNCHANGED <<settings, l_zip, l_extraction>>
    /\ UNCHANGED notLimits

\* run_complete_pipeline step 1 on the accepted upload: extract_archive; it
\* does not read settings.max_zip_depth
LimitsExtract ==
    /\ l_pc = "validated"
    /\ l_extraction' = <<extract_archive(l_zip).what>>
    /\ l_pc' = "extracted"
    /\ UNCHANGED <<settings, l_zip, l_validation>>
    /\ UNCHANGED notLimits

NextLimits == LimitsValidate \/ LimitsExtract

SpecLimits == InitLimits /\ [][NextLimits]_vars

----------------------------------------------------------------------------
(* conversion_pipeline.py: the steps of run_complete_pipeline as functions  *)
(* of their inputs.  A text is a sequence of fragments; a workspace file is *)
(* a relative path with the origin of the file.                             *)

\* marker in text
Mentions(text, marker) == \E i \in 1..Len(text) : text[i] = marker

\* text.replace(old, "")
replace(text, old) == SelectSeq(text, LAMBDA t : t # old)

\* Path.suffix of a file name: from the last dot on, unless that dot is the
\* first or the last character
suffix(name) ==
    LET dots == {i \in 1..Len(name) : name[i] = "."}
    IN IF dots = {} THEN <<>>
       ELSE LET i == CHOOSE d \in dots : \A e \in dots : e <= d
            IN IF 1 < i /\ i < Len(name) THEN SubSeq(name, i, Len(name)) ELSE <<>>

\* self.supported_extensions
supported_extensions ==
    {<<".", "m", "d">>, <<".", "m", "a", "r", "k", "d", "o", "w", "n">>,
     <<".", "t", "x", "t">>}

WsFile(path, origin) == [path |-> path, origin |-> origin]

\* workspace / "converted_output" and workspace / "output.zip"
output_md_dir == <<"c">>
output_zip_name == <<"o", ".", "z", "i", "p">>

\* len(str(path)) of an absolute path
RECURSIVE PathLength(_)
PathLength(parts) ==
    IF Len(parts) = 0 THEN 0 ELSE 1 + Len(Head(parts)) + PathLength(Tail(parts))

\* extract_path.glob("*.doccarchive"): entries directly under "extracted"
\* whose name ends with the suffix
doccarchive_suffix == <<".", "d", "o", "c", "c", "a", "r", "c", "h", "i", "v", "e">>

doccarchive_dirs(files) ==
    {f.path[2] : f \in {g \in files : /\ g.origin = "archive"
                                       /\ Len(g.path) >= 2
                                       /\ g.path[1] = <<"e">>
                                       /\ Len(g.path[2]) > 0
                                       /\ EndsWithSeq(g.path[2], doccarchive_suffix)}}

\* command = [settings.swift_cli_path, str(input_path), str(output_path)]
\* for the bundle directory chosen (<<>> = the extraction root itself)
ConversionCommand(bundle) ==
    LET input_path == IF bundle = <<>> THEN extract_root
                      ELSE Append(extract_root, bundle[1])
        name_chars == IF bundle = <<>> THEN {}
                      ELSE {bundle[1][i] : i \in 1..Len(bundle[1])}
    IN <<swift_cli_path,
         Arg("input_path", PathLength(input_path), name_chars),
         Arg("output_path", PathLength(Append(workspace_dir, output_md_dir)), {})>>

\* str(e) of what execute_command raises; the texts of the arguments
\* stand for ' '.join(command)
ValueErrorText(command) ==
    <<"Command not allowed for security reasons: ", command[1].text>>

TimeoutErrorText(command) ==
    <<"Command '">> \o [i \in 1..Len(command) |-> command[i].text]
        \o <<"' timed out">>

ExceptionText(command) ==
    <<"Command '">> \o [i \in 1..Len(command) |-> command[i].text]
        \o <<"' failed after attempts: ">>

\* error_msg = stdout or stderr or "Unknown error"
error_msg(stdout, stderr) ==
    IF stdout # <<>> THEN stdout
    ELSE IF stderr # <<>> THEN stderr
    ELSE <<"Unknown error">>

\* what the tool left behind and printed on its last run: whether the output
\* directory exists, the names of the files in it, stdout and stderr
ToolRun(made, names, stdout, stderr) ==
    [made |-> made, names |-> names, stdout |-> stdout, stderr |-> stderr]

\* the exception convert_with_swift_cli has in hand in its except clause,
\* <<>> when the try block ran to its return
ConversionException(pc, command, returncode, tool) ==
    IF pc = "raised_unsafe" THEN <<ValueErrorText(command)>>
    ELSE IF pc = "raised_timeout" THEN <<TimeoutErrorText(command)>>
    ELSE IF pc = "raised_error" THEN <<ExceptionText(command)>>
    ELSE IF returncode # 0
         THEN << <<"Conversion failed: ">> \o error_msg(tool.stdout, tool.stderr) >>
    ELSE IF ~ tool.made
         THEN << <<"Conversion completed but no output directory was generated">> >>
    ELSE IF tool.names = {}
         THEN << <<"Conversion completed but output directory is empty">> >>
    ELSE <<>>

\* "No such file or directory" in str(e) or "docc2context" in str(e)
IsMissingCliError(text) ==
    Mentions(text, "No such file or directory") \/ Mentions(text, "docc2context")

\* collect_markdown_files(workspace)
collect_markdown_files(files) ==
    {f \in files : lower(suffix(f.path[Len(f.path)])) \in supported_extensions}

\* detail of the HTTPException raised for a conversion error
ErrorDetail(error_message) ==
    IF Mentions(error_message, "Conversion failed: ")
    THEN <<"Conversion failed: ">> \o replace(error_message, "Conversion failed: ")
    ELSE <<"Conversion failed: ">> \o error_message

----------------------------------------------------------------------------
(* Inputs of SpecPipeline *)

\* archive members: a file at the root, a text file, a bundle directory, a
\* bundle directory whose name holds a shell metacharacter, and a regular
\* file named like a bundle
PipelineEntries ==
    {Entry(<<"a">>, 1, 0, 33188),
     Entry(<<"n", ".", "T", "X", "T">>, 1, 0, 33188),
     Entry(<<"b">> \o doccarchive_suffix \o <<"/", "a">>, 1, 0, 33188),
     Entry(<<"$">> \o doccarchive_suffix \o <<"/", "a">>, 1, 0, 33188),
     Entry(<<"c">> \o doccarchive_suffix, 1, 0, 33188),
     Entry(ZipName, 1, 0, 33188)}

PipelineArchives ==
    {<<e>> : e \in PipelineEntries}
    \cup {<<Entry(<<"a">>, 1, 0, 33188), e>> : e \in PipelineEntries}
    \cup {<<Entry(ZipName, 1, 0, 33188), Entry(ZipName, 1, 0, 33188)>>}

\* safe_filename of the upload: an archive name, or a name with a Markdown
\* extension
UploadNames == {ZipName, <<"n", ".", "m", "d">>}

\* the names run_complete_pipeline and extract_archive use in the workspace:
\* workspace / "extracted", workspace / "converted_output" and
\* workspace / "output.zip"
PipelineNames == {<<"e">>, output_md_dir, output_zip_name}

\* an archive with the name its upload is stored under: every archive under
\* the two ordinary names, and a plain archive under each name the pipeline
\* uses itself; sanitize_filename accepts them all
PipelineInputs ==
    {in \in (PipelineArchives \X UploadNames) \cup ({GoodZip} \X PipelineNames) :
        sanitize_filename(in[2]).ok}

\* new files written into the workspace: a file already at the path of one
\* of them is replaced
Overwrite(files, new) ==
    {f \in files : \A n \in new : f.path # n.path} \cup new

\* file names the tool can write into its output directory
ToolFileNames == {<<"d", ".", "m", "d">>, <<"d", ".", "j", "s", "o", "n">>}

\* what a run of the tool can leave and print; it leaves files only inside
\* an output directory that exists
PossibleToolRuns ==
    {t \in {ToolRun(m, ns, so, se) :
                m \in BOOLEAN, ns \in SUBSET ToolFileNames,
                so \in {<<>>, <<"Converting">>},
                se \in {<<>>, <<"error: bad bundle">>,
                        <<"docc2context", ": error: bad bundle">>,
                        <<"No such file or directory">>,
                        <<"Conversion failed: ", "bad bundle">>}} :
        t.names # {} => t.made}

----------------------------------------------------------------------------
(* SpecPipeline: convert_file from the stored upload to the response:       *)
(* run_complete_pipeline, with execute_command run step by step             *)

InitPipeline ==
    /\ p_pc = "extract"
    /\ \E in \in PipelineInputs :
          /\ p_zip = in[1]
          /\ p_files = {WsFile(<<in[2]>>, "upload")}
    /\ p_input = <<>>
    /\ p_tool = <<>>
    /\ p_mock = FALSE
    /\ p_exc = <<>>
    /\ p_archive = <<>>
    /\ p_response = <<>>
    /\ IdleValidate
    /\ IdleExec
    /\ IdleExtract
    /\ IdleRequests
    /\ IdleSanitize
    /\ IdleLimits
    /\ IdleRepeat

\* Step 1: extract_archive(input_zip_path, workspace / "extracted")
PipeExtract ==
    /\ p_pc = "extract"
    /\ LET res == extract_archive(p_zip)
       IN IF \E f \in p_files : f.path = << <<"e">> >>
          \* extract_path.mkdir(exist_ok=True) on the stored upload:
          \* FileExistsError
          THEN /\ p_exc' = << <<"File exists">> >>
               /\ p_pc' = "failed"
               /\ UNCHANGED p_files
          ELSE IF res.what = "returned"
          THEN /\ p_files' = p_files \cup
                     {WsFile(SubSeq(f, Len(workspace_dir) + 1, Len(f)), "archive") :
                         f \in {g \in res.files : IsRelativeTo(g, workspace_dir)}}
               /\ p_pc' = "find_bundle"
               /\ UNCHANGED p_exc
          ELSE /\ p_exc' = << <<res.what>> >>
               /\ p_pc' = "failed"
               /\ UNCHANGED p_files
    /\ UNCHANGED <<p_zip, p_input, p_tool, p_mock, p_archive, p_response>>
    /\ UNCHANGED cmdVars
    /\ UNCHANGED notPipeline

\* Step 2 and the start of step 3: choose docc_input_path, list it, build the
\* command and enter execute_command (no env argument is passed)
PipeStartConversion ==
    /\ p_pc = "find_bundle"
    /\ \E bundle \in IF doccarchive_dirs(p_files) = {} THEN {<<>>}
                     ELSE {<<d>> : d \in doccarchive_dirs(p_files)} :
        IF bundle # <<>> /\ \E g \in p_files : g.path = << <<"e">>, bundle[1] >>
        THEN \* the glob matched a regular file: docc_input_path.iterdir()
             \* raises NotADirectoryError
             /\ p_exc' = << <<"Not a directory">> >>
             /\ p_pc' = "failed"
             /\ UNCHANGED p_input
             /\ UNCHANGED cmdVars
        ELSE /\ p_input' = <<bundle>>
             /\ p_pc' = "convert"
             /\ c_command' = ConversionCommand(bundle)
             /\ c_env' = NoEnv
             /\ c_retries' = MaxRetries
             /\ c_pc' = "start"
             /\ UNCHANGED p_exc
             /\ UNCHANGED <<c_child_env, c_attempt, c_spawned, c_alive,
                            c_last_exception, c_result, c_returncode, c_log,
                            c_sleeps>>
    /\ UNCHANGED <<p_zip, p_files, p_tool, p_mock, p_archive, p_response>>
    /\ UNCHANGED notPipeline

\* The rest of convert_with_swift_cli once execute_command returned or
\* raised: the checks of the result, and the except clause with the mock
\* conversion
PipeConversionEnds ==
    /\ p_pc = "convert"
    /\ c_pc \in {"returned", "raised_unsafe", "raised_timeout", "raised_error"}
    \* when no child ran, nothing was written and nothing printed
    \* and no output directory is made where a file is stored
    /\ \E tool \in IF c_spawned = 0 THEN {ToolRun(FALSE, {}, <<>>, <<>>)}
                   ELSE IF \E f \in p_files : f.path = <<output_md_dir>>
                   THEN {t \in PossibleToolRuns : ~ t.made}
                   ELSE PossibleToolRuns :
        LET e == ConversionException(c_pc, c_command, c_result, tool)
            made == {WsFile(<<output_md_dir, n>>, "tool") : n \in tool.names}
        IN /\ p_tool' = <<tool>>
           /\ IF e = <<>>
              THEN /\ p_files' = p_files \cup made
                   /\ p_pc' = "collect"
                   /\ UNCHANGED <<p_mock, p_exc>>
              ELSE IF ~ IsMissingCliError(e[1])
              THEN /\ p_files' = p_files \cup made
                   /\ p_exc' = e
                   /\ p_pc' = "failed"
                   /\ UNCHANGED p_mock
              ELSE IF tool.made
              THEN \* open(output_path, "w") on a directory
                   /\ p_files' = p_files \cup made
                   /\ p_exc' = << <<"Is a directory">> >>
                   /\ p_pc' = "failed"
                   /\ UNCHANGED p_mock
              ELSE /\ p_files' = Overwrite(p_files, {WsFile(<<output_md_dir>>, "mock")})
                   /\ p_mock' = TRUE
                   /\ p_pc' = "collect"
                   /\ UNCHANGED p_exc
    /\ UNCHANGED <<p_zip, p_input, p_archive, p_response>>
    /\ UNCHANGED cmdVars
    /\ UNCHANGED notPipeline

\* Steps 4 and 5: collect_markdown_files(workspace), then create_output_zip
\* with base_path = workspace
PipeCreateOutputZip ==
    /\ p_pc = "collect"
    /\ p_archive' = <<collect_markdown_files(p_files)>>
    /\ p_files' = Overwrite(p_files, {WsFile(<<output_zip_name>>, "pipeline")})
    /\ p_pc' = "returned"
    /\ UNCHANGED <<p_zip, p_input, p_tool, p_mock, p_exc, p_response>>
    /\ UNCHANGED cmdVars
    /\ UNCHANGED notPipeline

\* convert_file: the Response with the archive
PipeRespondArchive ==
    /\ p_pc = "returned"
    /\ p_response' = <<[status |-> 200, body |-> p_archive[1]]>>
    /\ p_pc' = "done"
    /\ UNCHANGED <<p_zip, p_files, p_input, p_tool, p_mock, p_exc, p_archive>>
    /\ UNCHANGED cmdVars
    /\ UNCHANGED notPipeline

\* convert_file: `except Exception as conversion_error`
PipeRespondError ==
    /\ p_pc = "failed"
    /\ p_response' = <<[status |-> 500, detail |-> ErrorDetail(p_exc[1])]>>
    /\ p_pc' = "done"
    /\ UNCHANGED <<p_zip, p_files, p_input, p_tool, p_mock, p_exc, p_archive>>
    /\ UNCHANGED cmdVars
    /\ UNCHANGED notPipeline

NextPipeline ==
    \/ PipeExtract
    \/ PipeStartConversion
    \/ ExecValidate
    \/ ExecSpawn
    \/ ExecSpawnError
    \/ ExecComplete
    \/ ExecDecodeError
    \/ ExecTimeout
    \/ ExecKill
    \/ ExecSleep
    \/ ExecRaise
    \/ PipeConversionEnds
    \/ PipeCreateOutputZip
    \/ PipeRespondArchive
    \/ PipeRespondError

SpecPipeline == InitPipeline /\ [][NextPipeline]_vars

----------------------------------------------------------------------------
(* SpecRepeat: the same upload converted twice by the same converter, each  *)
(* run in a workspace of its own.  Paths are absolute, as the code holds    *)
(* them; the content of a file is a sequence of fragments.                  *)

\* settings.workspace_base_path
base_path == << <<"t">> >>

\* f"{self.prefix}-{uuid.uuid4()}" for the n-th value of uuid4()
WorkspaceDirName(n) == <<"s", "-", <<"1", "2", "3", "4">>[n]>>

\* self.base_path / workspace_name
WorkspaceDir(n) == Append(base_path, WorkspaceDirName(n))

File(path, content) == [path |-> path, content |-> content]

\* file_path.relative_to(base): the parts of file_path after those of base
relative_to(file_path, base) == SubSeq(file_path, Len(base) + 1, Len(file_path))

\* converters, each a function of its command line [cli, str(input_path),
\* str(output_path)]: one writes a file with fixed content, one writes a file
\* that quotes the input path it was given, one cannot be started (the mock
\* conversion takes its place), one exits with an error
Converters == {"fixed", "quotes_input", "missing", "fails"}

\* what the converter leaves in output_path when run on input_path
ConverterOutput(converter, input_path, output_path) ==
    CASE converter = "fixed" ->
            {File(Append(output_path, <<"d", ".", "m", "d">>), << <<"# doc">> >>)}
      [] converter = "quotes_input" ->
            {File(Append(output_path, <<"d", ".", "m", "d">>),
                  << <<"# doc from">> >> \o input_path)}
      [] OTHER -> {}

\* mock_content: it names input_path.name and workspace.name
mock_content(input_path, workspace) ==
    << <<"# Mock Conversion Result">>, input_path[Len(input_path)],
       workspace[Len(workspace)] >>

RepeatInputs ==
    [name : UploadNames,
     zip : {<<Entry(<<"a">>, 1, 0, 33188)>>,
            <<Entry(<<"n", ".", "T", "X", "T">>, 1, 0, 33188)>>,
            <<Entry(ZipName, 1, 0, 33188)>>},
     converter : Converters]

InitRepeat ==
    /\ i_pc = "acquire"
    /\ i_input \in RepeatInputs
    /\ i_workspace = <<>>
    /\ i_names = <<>>
    /\ i_files = {}
    /\ i_outputs = <<>>
    /\ IdleValidate
    /\ IdleExec
    /\ IdleExtract
    /\ IdleRequests
    /\ IdlePipeline
    /\ IdleSanitize
    /\ IdleLimits

\* the run ends without an archive
RepeatFails ==
    /\ i_outputs' = Append(i_outputs, [ok |-> FALSE, members |-> {}])
    /\ i_pc' = "release"

\* create_workspace: a name is drawn and the directory made
RepeatAcquire ==
    /\ i_pc = "acquire"
    /\ \E n \in WsNames :
          /\ i_workspace' = <<n>>
          /\ i_names' = Append(i_names, n)
    /\ i_pc' = "store"
    /\ UNCHANGED <<i_input, i_files, i_outputs>>
    /\ UNCHANGED notRepeat

\* the upload is written to get_file_path(workspace, safe_filename)
RepeatStore ==
    /\ i_pc = "store"
    /\ i_files' = {File(Append(WorkspaceDir(i_workspace[1]), i_input.name),
                        << <<"upload">> >>)}
    /\ i_pc' = "extract"
    /\ UNCHANGED <<i_input, i_workspace, i_names, i_outputs>>
    /\ UNCHANGED notRepeat

\* Step 1: extract_archive(input_zip_path, workspace / "extracted"); each
\* file holds the data of its entry
RepeatExtract ==
    /\ i_pc = "extract"
    /\ LET res == extract_archive(i_input.zip)
           workspace == WorkspaceDir(i_workspace[1])
       IN IF res.what = "returned"
          THEN /\ i_files' = i_files \cup
                     {File(workspace \o relative_to(f, workspace_dir),
                           << <<"entry">> >> \o relative_to(f, extract_root)) :
                         f \in {g \in res.files : IsRelativeTo(g, workspace_dir)}}
               /\ i_pc' = "convert"
               /\ UNCHANGED i_outputs
          ELSE RepeatFails /\ UNCHANGED i_files
    /\ UNCHANGED <<i_input, i_workspace, i_names>>
    /\ UNCHANGED notRepeat

\* Steps 2 and 3: convert_with_swift_cli(input_path = workspace / "extracted",
\* output_path = workspace / "converted_output"), with the mock conversion
\* when the converter cannot be started
RepeatConvert ==
    /\ i_pc = "convert"
    /\ LET workspace == WorkspaceDir(i_workspace[1])
           input_path == Append(workspace, <<"e">>)
           output_path == Append(workspace, output_md_dir)
       IN CASE i_input.converter = "fails" -> RepeatFails /\ UNCHANGED i_files
            [] i_input.converter = "missing" ->
                  /\ i_files' = i_files \cup
                        {File(output_path, mock_content(input_path, workspace))}
                  /\ i_pc' = "package"
                  /\ UNCHANGED i_outputs
            [] OTHER ->
                  /\ i_files' = i_files \cup
                        ConverterOutput(i_input.converter, input_path, output_path)
                  /\ i_pc' = "package"
                  /\ UNCHANGED i_outputs
    /\ UNCHANGED <<i_input, i_workspace, i_names>>
    /\ UNCHANGED notRepeat

\* mutant: the members are named by their absolute paths
archive_path_absolute(file_path, base) == file_path

\* create_output_zip: archive_path = file_path.relative_to(base_path)
archive_path(file_path, base) == relative_to(file_path, base)

\* Steps 4 and 5 and the read of the result: collect_markdown_files(workspace),
\* create_output_zip(markdown_files, workspace / "output.zip", workspace); the
\* members are what the caller gets
RepeatPackage ==
    /\ i_pc = "package"
    /\ LET workspace == WorkspaceDir(i_workspace[1])
           members == {File(archive_path(f.path, workspace), f.content) :
                          f \in collect_markdown_files(i_files)}
       IN /\ i_outputs' = Append(i_outputs, [ok |-> TRUE, members |-> members])
          /\ i_files' = i_files \cup
                {File(Append(workspace, output_zip_name), << <<"archive">> >>)}
    /\ i_pc' = "release"
    /\ UNCHANGED <<i_input, i_workspace, i_names>>
    /\ UNCHANGED notRepeat

\* the workspace is cleaned up; the same upload is then sent once more
RepeatRelease ==
    /\ i_pc = "release"
    /\ i_files' = {}
    /\ i_workspace' = <<>>
    /\ i_pc' = IF Len(i_outputs) < 2 THEN "acquire" ELSE "done"
    /\ UNCHANGED <<i_input, i_names, i_outputs>>
    /\ UNCHANGED notRepeat

NextRepeat ==
    \/ RepeatAcquire
    \/ RepeatStore
    \/ RepeatExtract
    \/ RepeatConvert
    \/ RepeatPackage
    \/ RepeatRelease

SpecRepeat == InitRepeat /\ [][NextRepeat]_vars

----------------------------------------------------------------------------
(* Properties of validate_zip_bomb_protection (SpecValidate) *)

Min(a, b) == IF a < b THEN a ELSE b

\* sum of the declared uncompressed sizes of entries 1..n
RECURSIVE DeclaredTotal(_, _)
DeclaredTotal(zip, n) ==
    IF n = 0 THEN 0 ELSE DeclaredTotal(zip, n - 1) + zip[n].file_size

SizeBound == Min(v_original_size * 5, max_decompressed_ceiling)

\* C6: an archive whose sum of declared uncompressed sizes exceeds
\* min(upload_size * 5, ceiling) is rejected, and an archive whose sum is at
\* most that bound is not rejected for size.
C6_SizeBoundEnforced ==
    v_pc = "done" =>
        /\ (DeclaredTotal(v_zip, Len(v_zip)) > SizeBound => v_verdict # "accepted")
        /\ (DeclaredTotal(v_zip, Len(v_zip)) <= SizeBound => v_verdict # "size_exceeded")

\* the sum passes the bound only with the last of several well-formed entries,
\* and the bound in force is the 5x ratio (below the hard ceiling)
C6_Witness ==
    /\ v_pc = "done"
    /\ v_verdict = "size_exceeded"
    /\ Len(v_zip) = 2
    /\ v_i = 2
    /\ SizeBound = 5
    /\ DeclaredTotal(v_zip, 1) <= SizeBound
    /\ DeclaredTotal(v_zip, 2) > SizeBound

\* entry i on its own passes the name, encryption and symlink checks of the loop
EntryPassesChecks(e) ==
    /\ ~ (startswith(e.filename, "/") \/ startswith(e.filename, "\\"))
    /\ ~ ContainsDotDot(e.filename)
    /\ ~ Contains(e.filename, NUL)
    /\ e.flag_bits % 2 = 0
    /\ e.external_attr_hi # 40960

\* the first max_files entries raise nothing
FirstEntriesPass ==
    \A i \in 1..max_files :
        /\ EntryPassesChecks(v_zip[i])
        /\ DeclaredTotal(v_zip, i) <= SizeBound

\* C7 as stated: an archive with more than the maximum entry count is rejected
\* with the count-specific reason, whatever its entries are.
C7_CountReasonWhateverEntries ==
    (v_pc = "done" /\ Len(v_zip) > max_files) => v_verdict = "too_many_files"

\* C7 amended: an archive with more than the maximum entry count is always
\* rejected; the reason is the count-specific one exactly when each of the
\* first max_files entries passes the per-entry checks, and otherwise it is
\* the reason of the first offending entry among them.
C7_CountRejects ==
    (v_pc = "done" /\ Len(v_zip) > max_files) =>
        /\ v_verdict # "accepted"
        /\ (v_verdict = "too_many_files" <=> FirstEntriesPass)

\* max_files + 1 well-formed entries: rejected at the entry past the limit
C7_Witness ==
    /\ v_pc = "done"
    /\ Len(v_zip) = max_files + 1
    /\ FirstEntriesPass
    /\ file_count = max_files + 1
    /\ v_verdict = "too_many_files"

\* the Unix file type held in external_attr >> 16 is S_IFLNK
IsSymlinkMode(external_attr_hi) == (external_attr_hi \div 4096) * 4096 = S_IFLNK

\* C8: an archive with an entry whose stored Unix mode marks it as a symbolic
\* link (file type S_IFLNK, with any permission bits) is rejected by validation.
C8_SymlinkModeRejected ==
    (v_pc = "done" /\ \E i \in 1..Len(v_zip) : IsSymlinkMode(v_zip[i].external_attr_hi))
        => v_verdict # "accepted"

\* a drive prefix: a letter followed by a colon
HasDrivePrefix(filename) ==
    Len(filename) >= 2 /\ filename[1] = "a" /\ filename[2] = ":"

\* some segment of the name (between separators) is exactly ".."
RECURSIVE SegmentsOf(_, _)
SegmentsOf(s, cur) ==
    IF Len(s) = 0 THEN {cur}
    ELSE IF s[1] \in {"/", "\\"} THEN {cur} \cup SegmentsOf(Tail(s), <<>>)
    ELSE SegmentsOf(Tail(s), Append(cur, s[1]))

HasParentSegment(filename) == <<".", ".">> \in SegmentsOf(filename, <<>>)

\* C9: an accepted archive has no entry with an absolute path (leading
\* separator or drive prefix), a parent-directory segment, a NUL byte or the
\* encryption flag; and an entry is rejected for a path reason only if it has
\* that defect (two dots inside a segment are not a parent-directory segment).
C9_NameChecksExact ==
    v_pc = "done" =>
        /\ v_verdict = "accepted" =>
              \A i \in 1..Len(v_zip) :
                  /\ ~ startswith(v_zip[i].filename, "/")
                  /\ ~ startswith(v_zip[i].filename, "\\")
                  /\ ~ HasDrivePrefix(v_zip[i].filename)
                  /\ ~ HasParentSegment(v_zip[i].filename)
                  /\ ~ Contains(v_zip[i].filename, NUL)
                  /\ v_zip[i].flag_bits % 2 = 0
        /\ v_verdict = "path_traversal" => HasParentSegment(v_zip[v_i].filename)
        /\ v_verdict = "absolute_path" =>
              (startswith(v_zip[v_i].filename, "/") \/ startswith(v_zip[v_i].filename, "\\"))
        /\ v_verdict = "null_byte" => Contains(v_zip[v_i].filename, NUL)
        /\ v_verdict = "encrypted" => v_zip[v_i].flag_bits % 2 = 1

----------------------------------------------------------------------------
(* Properties of execute_command (SpecExec) *)

\* the command has one of the defects the claim lists: a binary that is not
\* exactly the configured converter path, an argument with a NUL byte or
\* longer than 4096 characters, or an argument after the binary that contains
\* a shell metacharacter
ListedDefect(command) ==
    /\ Len(command) > 0
    /\ \/ command[1] # Arg("docc2context", 12, {})
       \/ \E i \in 1..Len(command) : NUL \in command[i].chars
       \/ \E i \in 1..Len(command) : command[i].len > 4096
       \/ \E i \in 2..Len(command) :
             command[i].chars \cap {";", "&", "|", "BQ", "$", "(", ")", "<", ">", "LF", "CR"} # {}

\* C10: execute_command spawns no child process unless validate_command_safety
\* accepted the command; a command with a listed defect makes it raise with
\* zero processes spawned.
C10_ValidatedBeforeSpawn ==
    /\ (c_spawned > 0 \/ c_pc \in {"spawn", "wait", "kill", "sleep", "exhausted",
                                   "returned", "raised_timeout", "raised_error"})
           => validate_command_safety(c_command)
    /\ (c_pc # "idle" /\ ListedDefect(c_command)) =>
           /\ c_spawned = 0
           /\ c_pc \in {"start", "raised_unsafe"}

\* the conversion shape with a semicolon in the input path has been refused
C10_Witness ==
    /\ c_pc = "raised_unsafe"
    /\ Len(c_command) = 3
    /\ c_command[1] = swift_cli_path
    /\ c_command[2].chars = {";"}
    /\ c_command[2].len <= 4096
    /\ c_command[3].chars = {}
    /\ c_spawned = 0

\* the invocations the claim lists: [cli, input, "--output", dir], the same
\* followed by "--force", [cli, "--help"] and [cli, "-h"], with clean paths
WellFormedInvocation(command) ==
    LET cli == Arg("docc2context", 12, {})
        clean(a) == a.chars = {} /\ a.len <= 4096
    IN \/ /\ Len(command) \in {4, 5}
          /\ command[1] = cli
          /\ clean(command[2])
          /\ command[3] = Arg("--output", 8, {})
          /\ clean(command[4])
          /\ Len(command) = 5 => command[5] = Arg("--force", 7, {})
       \/ /\ Len(command) = 2
          /\ command[1] = cli
          /\ command[2] \in {Arg("--help", 6, {}), Arg("-h", 2, {})}

\* C11: validate_command_safety accepts every well-formed invocation of the
\* configured converter (the two conversion shapes with "--output" and the
\* info queries "--help" and "-h"), so execute_command never refuses one as
\* unsafe.
C11_WellFormedAccepted ==
    (c_pc # "idle" /\ WellFormedInvocation(c_command)) => c_pc # "raised_unsafe"

\* C12: for every call of execute_command, the call without an env argument
\* included, the environment handed to each child holds only allow-listed
\* names with NUL-free values of at most 4096 characters.
C12_ChildEnvAllowListed ==
    \A e \in c_child_env :
        \A k \in DOMAIN e :
            /\ k \in {"PATH", "HOME", "USER", "LANG", "LC_ALL", "TZ", "TMPDIR", "TEMP", "TMP"}
            /\ ~ e[k].nul
            /\ e[k].len <= 4096

\* C13: an attempt that completes with a non-zero exit code is never
\* retried: once a child has exited with a non-zero code, execute_command
\* neither sleeps nor spawns again.
C13_NonZeroExitNotRetried ==
    [][c_returncode = <<1>> => (c_sleeps' = c_sleeps /\ c_spawned' = c_spawned)]_vars

\* progress measure of execute_command: what is left of the attempt budget,
\* then the position inside the attempt
PcRank(pc) ==
    CASE pc = "start" -> 6
      [] pc = "spawn" -> 5
      [] pc = "wait" -> 4
      [] pc = "kill" -> 3
      [] pc = "sleep" -> 2
      [] pc = "exhausted" -> 1
      [] OTHER -> 0

Rank == (c_retries - c_attempt) * 6 + PcRank(c_pc)

C14_WithinBudget ==
    /\ c_spawned <= c_retries + 1
    /\ c_sleeps <= c_retries
    /\ Len(c_log) <= c_retries + 1
    /\ c_pc \in {"exhausted", "raised_timeout", "raised_error"}
          => /\ Len(c_log) = c_retries + 1
             /\ c_sleeps = c_retries
             /\ c_alive = 0

\* C14: execute_command terminates after a bounded number of attempts: every
\* step lowers a non-negative measure, at most retries + 1 children are
\* spawned, timeouts and execution errors draw on the same budget, and after
\* the last failed attempt it raises without sleeping or spawning again.
C14_BoundedAttempts ==
    /\ [](C14_WithinBudget /\ Rank >= 0)
    /\ [][Rank' < Rank
          /\ (c_pc = "exhausted" => (c_sleeps' = c_sleeps /\ c_spawned' = c_spawned))]_vars

\* a call with retries has used its whole budget on a timeout and an
\* execution error and has raised
C14_Witness ==
    /\ c_pc \in {"raised_timeout", "raised_error"}
    /\ c_retries >= 1
    /\ c_spawned = c_retries + 1
    /\ c_sleeps = c_retries
    /\ \E i, j \in 1..Len(c_log) : c_log[i] = "timeout" /\ c_log[j] = "error"

\* C15: when all attempts have failed, execute_command raises a timeout error
\* iff the final attempt timed out and an execution error iff it failed
\* otherwise, whatever the earlier failures were.
C15_LastFailureClassified ==
    c_pc \in {"raised_timeout", "raised_error"} =>
        /\ Len(c_log) > 0
        /\ c_pc = "raised_timeout" <=> c_log[Len(c_log)] = "timeout"
        /\ c_pc = "raised_error" <=> c_log[Len(c_log)] = "error"

\* a timeout was raised although an earlier attempt failed otherwise
C15_Witness ==
    /\ c_pc = "raised_timeout"
    /\ Len(c_log) >= 2
    /\ c_log[1] = "error"
    /\ c_log[Len(c_log)] = "timeout"

\* C35: a timed-out child is killed and waited for before the attempt counts
\* as failed: a child is alive only while the call waits for it or is about
\* to kill it, so never more than one at a time, none when the next attempt
\* is spawned and none when the call has ended by return or by an error.
C35_TimedOutChildReaped ==
    /\ c_alive \in {0, 1}
    /\ c_alive = 1 => c_pc \in {"wait", "kill"}
    /\ c_pc \in {"wait", "kill"} => c_alive = 1

\* the call has ended by the timeout error after several children, each
\* killed after its timeout
C35_Witness ==
    /\ c_pc = "raised_timeout"
    /\ c_spawned >= 2
    /\ c_alive = 0
    /\ \A i \in 1..Len(c_log) : c_log[i] = "timeout"
    /\ Len(c_log) = c_spawned

----------------------------------------------------------------------------
(* Properties of extract_archive (SpecExtract) *)

\* entry i is one the loop tries to write: not a directory entry and not
\* skipped as a symlink
IsFileEntry(e) == ~ endswith(e.filename, "/") /\ e.external_attr_hi # 40960

\* the stored path has a segment that is exactly ".."
HasParentDirSegment(filename) ==
    \E k \in 1..Len(split(filename, "/")) : split(filename, "/")[k] = <<".", ".">>

\* the normalized path, resolved from the extraction root, leaves the root
ResolvesOutsideRoot(filename) ==
    ~ IsRelativeTo(ResolveFrom(extract_root, PathParts(normalize_zip_path(filename))),
                   extract_root)

\* C2: at every point of extract_archive no file exists outside the
\* extraction root, and an entry whose path contains a parent-directory
\* segment or resolves outside the root makes extract_archive fail with a path
\* error instead of being written.
C2_NoWriteOutsideAndPathError ==
    /\ \A f \in fs_files : IsRelativeTo(f, extract_root)
    /\ \A i \in 1..x_i :
          (IsFileEntry(x_zip[i]) /\
             (HasParentDirSegment(x_zip[i].filename) \/ ResolvesOutsideRoot(x_zip[i].filename)))
          => /\ i = x_i
             /\ x_pc = "raised"
             /\ x_error \in {"path_traversal", "null_byte", "depth"}

\* the number of segments of the normalized path, as _validate_zip_path
\* counts them
Depth(filename) == Len(split(normalize_zip_path(filename), "/"))

\* the file an entry is written to
TargetOf(filename) ==
    ResolveFrom(extract_root, PathParts(normalize_zip_path(filename)))

\* entry i is the one that made extract_archive raise, with error kind
RaisedAt(i, kind) == i = x_i /\ x_pc = "raised" /\ x_error = kind

\* the name ends with .zip, .jar, .war or .ear, whatever the case of its
\* letters
HasNestedExtension(filename) ==
    \E ext \in NestedExtensions : EndsWithSeq(lower(filename), ext)

C33_DepthLimit ==
    \A i \in 1..x_i :
        /\ Depth(x_zip[i].filename) > MAX_EXTRACTION_DEPTH => RaisedAt(i, "depth")
        /\ (Depth(x_zip[i].filename) = MAX_EXTRACTION_DEPTH /\ RaisedAt(i, x_error))
              => x_error # "depth"

\* C33 (amended): every entry that the loop does not skip (neither a
\* directory entry nor symlink-flagged), whose normalized path holds no NUL
\* and resolves inside the extraction root, makes extract_archive fail with
\* the depth error when it has more than 10 segments; no entry of 10 segments
\* or fewer fails with the depth error.
C33_DepthLimitOfWrittenEntries ==
    \A i \in 1..x_i :
        /\ (/\ IsFileEntry(x_zip[i])
            /\ ~ Contains(normalize_zip_path(x_zip[i].filename), NUL)
            /\ ~ ResolvesOutsideRoot(x_zip[i].filename)
            /\ Depth(x_zip[i].filename) > MAX_EXTRACTION_DEPTH)
              => RaisedAt(i, "depth")
        /\ (Depth(x_zip[i].filename) <= MAX_EXTRACTION_DEPTH /\ RaisedAt(i, x_error))
              => x_error # "depth"

\* a path of 10 segments was written and the path of 11 segments after it
\* made extract_archive fail
C33_Witness ==
    /\ x_i = 2
    /\ x_zip[1].filename = DeepPath(MAX_EXTRACTION_DEPTH)
    /\ TargetOf(x_zip[1].filename) \in fs_files
    /\ x_zip[2].filename = DeepPath(MAX_EXTRACTION_DEPTH + 1)
    /\ RaisedAt(2, "depth")

\* C34: every path in the list extract_archive returns is a strict descendant
\* of the extraction root, is a regular file (extract_archive creates no
\* symbolic link) and has permission bits exactly 0600.
C34_ReturnedFilesAreSafe ==
    x_pc = "returned" =>
        \A k \in 1..Len(extracted_files) :
            LET path == ResolveFrom(<<>>, extracted_files[k])
            IN /\ IsRelativeTo(path, extract_root)
               /\ path # extract_root
               /\ path \in fs_files
               /\ path \notin fs_dirs
               /\ fs_mode[path] = safe_mode

\* extract_archive has returned the two files it wrote, one of them through
\* a parent-directory segment
C34_Witness ==
    /\ x_pc = "returned"
    /\ Len(extracted_files) = 2
    /\ Cardinality(fs_files) = 2
    /\ \E k \in 1..2 : \E j \in 1..Len(extracted_files[k]) :
          extracted_files[k][j] = DotDot

\* C36: extraction is fail-fast: an entry that fails path validation, the
\* depth check or the nested-archive check makes extract_archive raise at
\* once, so that no entry after it is gone through; a symlink-flagged entry
\* is skipped without an error and the entries after it are extracted.
C36_FailFastButSymlinksSkipped ==
    \A i \in 1..x_i :
        /\ (/\ IsFileEntry(x_zip[i])
            /\ \/ validate_zip_path(x_zip[i].filename, extract_root) # "ok"
               \/ IsNestedArchiveName(x_zip[i].filename))
              => i = x_i /\ x_pc = "raised"
        /\ (/\ ~ endswith(x_zip[i].filename, "/")
            /\ IsSymlinkAttr(x_zip[i].external_attr_hi))
              => ~ (i = x_i /\ x_pc = "raised")

\* the archive is one upload validation lets through, for some upload size
PassesValidation(zip) ==
    \E original_size \in 1..max_upload_size :
        validate_zip_bomb_protection(zip, original_size) = "accepted"

\* sum of the sizes in the sequence sizes
RECURSIVE SumOf(_)
SumOf(sizes) == IF sizes = <<>> THEN 0 ELSE Head(sizes) + SumOf(Tail(sizes))

----------------------------------------------------------------------------
(* Properties of the workspace lifecycle of convert_file (Spec) *)

\* the request r leaves the create_workspace scope in this step
LeavesScope(r) == r_pc[r] = "exit" /\ r_pc'[r] = "done"

\* the workspace of request r was created
Created(r) == "created" \in r_log[r]

\* the request r is in flight and holds a workspace
Holding(r) == workspace_path[r] # None /\ r_pc[r] # "done"

\* C1 (as stated): for every run of the handler, whatever its outcome, the
\* workspace directory no longer exists at the moment control has left the
\* create_workspace scope.
C1_WorkspaceGoneAfterScope ==
    [][\A r \in Reqs :
          (LeavesScope(r) /\ Created(r)) => workspace_path[r] \notin ws_dirs']_vars

\* C1 (amended): at the moment control has left the create_workspace scope
\* the workspace directory no longer exists, unless the recursive deletion
\* itself failed, which is logged and not raised.
C1_WorkspaceGoneUnlessDeletionFailed ==
    [][\A r \in Reqs :
          (LeavesScope(r) /\ Created(r))
              => \/ workspace_path[r] \notin ws_dirs'
                 \/ "cleanup_failed" \in r_log'[r]]_vars

\* a cancelled request has left the scope and its workspace is gone
C1_Witness ==
    \E r \in Reqs :
        /\ r_pc[r] = "done"
        /\ r_exc[r] = "CancelledError"
        /\ "cleaned_up" \in r_log[r]
        /\ workspace_path[r] \notin ws_dirs

\* C3: every successful workspace creation is followed by exactly one
\* cleanup, of that same directory, whether the scope is left normally, by an
\* exception or by cancellation; no cleanup is run for a workspace whose
\* creation did not succeed.
C3_ExactlyOneCleanup ==
    \A r \in Reqs :
        /\ Len(cleaned[r]) <= 1
        /\ \A k \in 1..Len(cleaned[r]) :
              Created(r) /\ cleaned[r][k] = workspace_name[r]
        /\ (r_pc[r] = "done" /\ Created(r)) => Len(cleaned[r]) = 1

\* one request was cancelled and cleaned up once, another failed to create
\* its workspace and was not cleaned up
C3_Witness ==
    \E r, q \in Reqs :
        /\ r_pc[r] = "done" /\ r_exc[r] = "CancelledError"
        /\ cleaned[r] = <<workspace_name[r]>>
        /\ r_pc[q] = "done" /\ ~ Created(q)
        /\ cleaned[q] = <<>>

\* C4: under any interleaving of concurrent requests no two in-flight
\* requests hold the same workspace directory; the directory a request holds
\* exists, and a creation under a name that already exists fails.
C4_ExclusiveWorkspaces ==
    /\ \A r, q \in Reqs :
          (r # q /\ Holding(r) /\ Holding(q)) => workspace_path[r] # workspace_path[q]
    /\ \A r \in Reqs :
          /\ Holding(r) => workspace_path[r] \in ws_dirs
          /\ r_exc[r] = "FileExistsError" => workspace_path[r] = None

\* a request failed to create the directory another in-flight request holds
C4_Witness ==
    \E r, q \in Reqs :
        /\ r # q
        /\ Holding(r)
        /\ r_exc[q] = "FileExistsError"
        /\ workspace_name[q] = workspace_path[r]

\* every check of validate_upload_file, spelled out
UploadPassesEveryCheck(u) ==
    /\ u.file_size <= max_upload_size
    /\ u.file_size > 0
    /\ u.magic
    /\ sanitize_filename(FilenameOrDefault(u)).ok
    /\ u.well_formed
    /\ validate_zip_bomb_protection(u.zip, u.file_size) = "accepted"

\* C5: a request rejected by upload validation leaves its workspace empty up
\* to its release, and a workspace holds something only once the upload has
\* passed every validation check.
C5_RejectedBeforeAnyWrite ==
    \A r \in Reqs :
        Holding(r) =>
            /\ r_exc[r] = "HTTP400" => ws_files[workspace_path[r]] = {}
            /\ ws_files[workspace_path[r]] # {}
                  => /\ r_upload[r] # <<>>
                     /\ UploadPassesEveryCheck(r_upload[r][1])

\* a rejected request about to release its still empty workspace
C5_Witness ==
    \E r \in Reqs :
        /\ r_pc[r] = "exit"
        /\ r_exc[r] = "HTTP400"
        /\ workspace_path[r] \in ws_dirs
        /\ ws_files[workspace_path[r]] = {}

\* C22: when the deletion of the workspace fails during release, the failure
\* is logged and nothing is raised: the request is answered exactly as it
\* would have been had the deletion succeeded, with the successful response
\* or with the error that was leaving the scope.
C22_CleanupFailureNotRaised ==
    [][\A r \in Reqs :
          (/\ LeavesScope(r)
           /\ workspace_path[r] # None
           /\ workspace_path[r] \in ws_dirs') =>
              /\ "cleanup_failed" \in r_log'[r]
              /\ r_exc'[r] = r_exc[r]
              /\ r_status'[r] = StatusOf(r_exc[r])]_vars

\* a request answered with success although its workspace could not be
\* deleted
C22_Witness ==
    \E r \in Reqs :
        /\ r_pc[r] = "done"
        /\ "cleanup_failed" \in r_log[r]
        /\ workspace_path[r] \in ws_dirs
        /\ r_status[r] = "200"

\* C23: when the workspace directory cannot be created, by a name collision
\* or another OS error, the request fails at once: the creation is not
\* attempted again, no workspace is held, and neither validation nor any
\* later stage runs; the request is answered with a server error.
C23_CreationFailureIsFinal ==
    \A r \in Reqs :
        "create_failed" \in r_log[r] =>
            /\ r_pc[r] \in {"exit", "done"}
            /\ r_exc[r] \in {"FileExistsError", "OSError"}
            /\ "created" \notin r_log[r]
            /\ workspace_path[r] = None
            /\ r_upload[r] = <<>>
            /\ cleaned[r] = <<>>
            /\ r_pc[r] = "done" => r_status[r] = "500"

\* a request that failed on a name collision has been answered
C23_Witness ==
    \E r \in Reqs :
        /\ "create_failed" \in r_log[r]
        /\ r_exc[r] = "FileExistsError"
        /\ r_pc[r] = "done"

C26_OversizedAnsweredWith413 ==
    [][\A r \in Reqs :
          (/\ LeavesScope(r)
           /\ r_upload[r] # <<>>
           /\ r_upload[r][1].file_size > max_upload_size) =>
              r_status'[r] = "413"]_vars

\* C37: whatever the interleaving of requests with
\* cleanup_orphaned_workspaces, the directory of a workspace exists from its
\* creation until the request that owns it is released: the sweep removes no
\* directory an in-flight request owns.
C37_SweepSparesInFlightWorkspaces ==
    \A r \in Reqs :
        (workspace_path[r] # None /\ r_pc[r] # "done") =>
            workspace_path[r] \in ws_dirs

\* C38: the limits applied are the configured ones: validation refuses an
\* archive for its number of entries exactly when it has more than
\* settings.max_zip_files, and extraction refuses an entry for its depth
\* exactly when it has more than settings.max_zip_depth segments.
C38_ConfiguredLimitsApplied ==
    /\ l_validation # <<>> =>
          (l_validation[1] = "too_many_files" <=> Len(l_zip) > settings.max_zip_files)
    /\ l_extraction # <<>> =>
          (l_extraction[1] = "depth" <=>
              \E i \in 1..Len(l_zip) :
                  Len(split(l_zip[i].filename, "/")) > settings.max_zip_depth)

\* C40: the output archive is read into memory while the workspace of the
\* request exists, holds the archive and has not been released, and the
\* request is released and answered only in a later step, after the read:
\* a 200 response is made of bytes read before the workspace was deleted.
C40_ReadBeforeRelease ==
    [][\A r \in Reqs :
          /\ (r_pc[r] = "read" /\ r_pc'[r] # "read") =>
                /\ r_pc'[r] = "exit"
                /\ workspace_path[r] \in ws_dirs
                /\ "output.zip" \in ws_files[workspace_path[r]]
                /\ cleaned[r] = <<>>
                /\ cleaned'[r] = <<>>
                /\ workspace_path[r] \in ws_dirs'
          /\ (r_status[r] # "200" /\ r_status'[r] = "200") =>
                /\ r_pc[r] = "exit"
                /\ r_exc[r] = "none"
                /\ cleaned'[r] = <<workspace_path[r]>>]_vars

\* a request answered with 200 after its workspace was deleted
C40_Witness ==
    \E r \in Reqs :
        /\ r_status[r] = "200"
        /\ "cleaned_up" \in r_log[r]
        /\ workspace_path[r] \notin ws_dirs


----------------------------------------------------------------------------
(* Properties of the conversion pipeline (SpecPipeline) *)

\* every attempt of the conversion command ended in a timeout
AllAttemptsTimedOut ==
    /\ c_pc = "raised_timeout"
    /\ \A i \in 1..Len(c_log) : c_log[i] = "timeout"

\* C16: when every attempt of the conversion times out, the request ends in
\* a failure whose outcome names the timeout; it is never answered with
\* success or with an output archive.
C16_TimeoutEndsInFailure ==
    (p_pc = "done" /\ AllAttemptsTimedOut) =>
        /\ p_response[1].status # 200
        /\ p_archive = <<>>
        /\ Mentions(p_response[1].detail, "' timed out")

\* the conversion command ran to its end with a non-zero exit code
ExitedNonZero == c_pc = "returned" /\ c_returncode = <<1>>

\* C17: when the converter exits with a non-zero code, the request fails
\* with a conversion failure whose detail is the tool's output, unchanged
\* whatever it contains, and no output archive is produced.
C17_NonZeroExitReported ==
    (p_pc = "done" /\ ExitedNonZero) =>
        /\ p_response[1].status = 500
        /\ p_archive = <<>>
        /\ p_response[1].detail =
               <<"Conversion failed: ">> \o error_msg(p_tool[1].stdout, p_tool[1].stderr)

\* C18: when validate_command_safety rejects the conversion command, no
\* process is spawned and the request ends with the security error, not in
\* success.
C18_RejectedCommandAborts ==
    (p_pc = "done" /\ c_pc = "raised_unsafe") =>
        /\ c_spawned = 0
        /\ p_response[1].status # 200
        /\ Mentions(p_response[1].detail, "Command not allowed for security reasons: ")

\* the tool exited with 0 and left a non-empty output directory
ConversionSucceeded ==
    /\ c_pc = "returned"
    /\ c_returncode = <<0>>
    /\ p_tool # <<>>
    /\ p_tool[1].made
    /\ p_tool[1].names # {}

\* the order of the stages of run_complete_pipeline and of the answer: the
\* value of p_pc names the stage about to run
PipelineOrder ==
    {<<"extract", "find_bundle">>, <<"find_bundle", "convert">>,
     <<"convert", "collect">>, <<"collect", "returned">>, <<"returned", "done">>}

\* C21: the stages of a request run in the fixed order (acquire workspace,
\* validate, store the upload, then) extract, convert, collect, package; a
\* stage runs only if every earlier stage succeeded, so collecting and
\* packaging run only after a conversion that succeeded, and once a stage
\* has failed no later stage runs: the failure is answered.
C21_StagesInOrderUntilFailure ==
    /\ [](p_pc \in {"collect", "returned"} => ConversionSucceeded)
    /\ [][p_pc' # p_pc =>
            \/ <<p_pc, p_pc'>> \in PipelineOrder
            \/ p_pc' = "failed"
            \/ p_pc = "failed" /\ p_pc' = "done"]_vars

\* C19: when the conversion succeeds and no file with a recognised
\* extension is found, the request fails (empty result) and no output
\* archive is produced.
C19_EmptyResultFails ==
    (p_pc = "done" /\ ConversionSucceeded
        /\ collect_markdown_files(p_files) = {}) =>
        /\ p_response[1].status # 200
        /\ p_archive = <<>>

\* C20: on success the output archive holds exactly the files the converter
\* wrote: none that came with the upload, and every converter file.
C20_ArchiveIsConverterOutput ==
    (p_pc = "done" /\ p_response[1].status = 200) =>
        p_response[1].body = {f \in p_files : f.origin = "tool"}


\* the runs made so far returned the same members, and no path or content of
\* a member names a workspace
OutputsAgree ==
    /\ Len(i_outputs) = 2 => i_outputs[1] = i_outputs[2]
    /\ \A k \in 1..Len(i_outputs) :
          \A m \in i_outputs[k].members :
              \A n \in WsNames :
                  /\ ~ Mentions(m.path, WorkspaceDirName(n))
                  /\ ~ Mentions(m.content, WorkspaceDirName(n))

\* C31: two runs on the same upload with the same deterministic converter
\* return archives with the same relative paths and the same bytes for each
\* path, and nothing in the output depends on the workspace, whatever the
\* converter is.
C31_RepeatedRunsAgree ==
    i_input.converter \in Converters => OutputsAgree

\* C31, amended: the same, for a converter whose output does not depend on
\* the paths it is run with.
C31_RepeatedRunsAgreeUnlessPathsQuoted ==
    i_input.converter # "quotes_input" => OutputsAgree

\* two runs in workspaces of different names returned the same non-empty
\* archive
C31_Witness ==
    /\ Len(i_outputs) = 2
    /\ i_names[1] # i_names[2]
    /\ i_input.converter # "quotes_input"
    /\ i_outputs[1].ok
    /\ i_outputs[1].members # {}
    /\ i_outputs[2] = i_outputs[1]

\* C39: whatever filename sanitize_filename accepted, the pipeline runs with
\* the stored upload at none of the paths it uses itself (extracted,
\* converted_output, output.zip), and the upload is never a member of the
\* output archive.
C39_UploadKeptApart ==
    /\ p_pc # "extract" =>
          \A f \in p_files :
              f.origin = "upload" => f.path \notin {<<n>> : n \in PipelineNames}
    /\ p_archive # <<>> => \A f \in p_archive[1] : f.origin # "upload"

----------------------------------------------------------------------------
(* Properties of sanitize_filename (SpecSanitize) *)

\* C27: a declared filename that holds a NUL or any control character (tab,
\* newline and carriage return included), anywhere in it, is rejected, and
\* no workspace path is ever built from it.
C27_ControlCharsRejected ==
    (s_result # <<>> /\ ContainsAny(s_filename, ControlChars)) =>
        /\ ~ s_result[1].ok
        /\ s_path = <<>>

\* a name of the resource-fork form: "._", then a dot further on
IsResourceForkName(name) ==
    /\ Len(name) >= 3
    /\ name[1] = "." /\ name[2] = "_"
    /\ \E i \in 3..Len(name) : name[i] = "."

\* C28: a name whose final component begins with a dot is rejected unless it
\* has the resource-fork form, and the name returned is never empty.
C28_HiddenNamesRejected ==
    s_result # <<>> =>
        /\ (startswith(basename(s_filename), ".")
              /\ ~ IsResourceForkName(basename(s_filename))) => ~ s_result[1].ok
        /\ s_result[1].ok => s_result[1].name # <<>>

\* what follows the last "/" or "\" of the name
FinalComponent(filename) ==
    basename([i \in 1..Len(filename) |->
                 IF filename[i] = "\\" THEN "/" ELSE filename[i]])

\* C29: a filename with directory components is not refused because of
\* them: when its final component is acceptable the result is that
\* component, the result holds no "/" or "\", and sanitizing the result
\* again gives the same result.
C29_DirectoryComponentsStripped ==
    (/\ s_result # <<>>
     /\ Contains(s_filename, "/") \/ Contains(s_filename, "\\")
     /\ ~ ContainsAny(s_filename, ControlChars)) =>
        /\ sanitize_filename(FinalComponent(s_filename)).ok =>
              /\ s_result[1].ok
              /\ s_result[1].name = FinalComponent(s_filename)
        /\ s_result[1].ok =>
              ~ (Contains(s_result[1].name, "/") \/ Contains(s_result[1].name, "\\"))
        /\ s_again # <<>> => s_again[1] = s_result[1]

====
